---- MODULE Spec2Model ----
(***************************************************************************)
(* A model of the tfi-gtfs arrival resolver (src/gtfs.py) on top of the    *)
(* in-process backend of its key-value store (src/store.py, redis_url =    *)
(* None, the configuration src/test.py runs).                              *)
(*                                                                         *)
(* Time.  A date is a day number, a datetime is a number of seconds        *)
(* (day * 86400 + seconds since midnight), a timedelta is a number of      *)
(* seconds.  Day 0 is a Monday, so date.weekday() is the day number        *)
(* modulo 7.                                                               *)
(*                                                                         *)
(* None.  A Python value that may be None is modelled as a sequence of     *)
(* length at most one: None is << >>, the value v is << v >>.              *)
(***************************************************************************)
EXTENDS Integers, Sequences, FiniteSets, TLC

VARIABLES
    static,        \* the GTFS static tables on disk (data/*.txt)
    filter_stops,  \* GTFS.filter_stops: None or a set of stop numbers
    filter_trips,  \* GTFS.filter_trips: None or a set of trip ids
    data,          \* Store.data: namespace -> mapping (or set)
    passes,        \* number of live feeds parsed so far
    last_call,     \* the operation that ran last and its arguments
    result,        \* what that operation returned, or that it raised
    cache_file,    \* the snapshot on disk (CACHE_FILE): None or a pickled Store.data
    store2,        \* Store.data of a second Store of the same process, or None
    redis,         \* the hashes of the external backend, or None (redis_url = None)
    clock,         \* int(time.time())
    rate_limit_count, \* GTFS.rate_limit_count
    threads,       \* the threads of the server, where each one is in its
                   \* code and what it holds in its locals; None when the
                   \* operations are called one after the other
    reference      \* what the properties compare the program with (no
                   \* operation reads it): None or the value a property names

vars ==
    <<static, filter_stops, filter_trips, data, passes, last_call, result,
      cache_file, store2, redis, clock, rate_limit_count, threads, reference>>

-----------------------------------------------------------------------------
(* Optional values *)

None == << >>

Some(v) == << v >>

IsNone(x) == x = << >>

Val(x) == x[1]

-----------------------------------------------------------------------------
(* datetime arithmetic *)

Hour == 60 * 60

DaySeconds == 24 * Hour

\* datetime.timedelta(hours, minutes, seconds)
timedelta(h, m, s) == h * Hour + m * 60 + s

\* datetime.datetime(year, month, day): midnight of a date
Midnight(d) == d * DaySeconds

\* datetime.date()
DateOf(dt) == dt \div DaySeconds

\* datetime.hour, .minute, .second
HourOf(dt) == (dt % DaySeconds) \div Hour

MinuteOf(dt) == (dt % Hour) \div 60

SecondOf(dt) == dt % 60

\* date.weekday(): Monday is 0
weekday(d) == d % 7

-----------------------------------------------------------------------------
(* Enumerations of the realtime feed and of calendar_dates.txt *)

TRIP_SCHEDULED == 0
TRIP_ADDED == 1
TRIP_UNSCHEDULED == 2
TRIP_CANCELLED == 3

STOP_SCHEDULED == 0
STOP_SKIPPED == 1
STOP_NO_DATA == 2

\* exception_type of calendar_dates.txt as get_scheduled_arrivals reads it
EXCEPTION_ADDED == 1
EXCEPTION_REMOVED == 2

\* "Ignore delays greater than a week" (seconds)
WeekSeconds == 60 * 60 * 24 * 7

-----------------------------------------------------------------------------
(* Bounds of the model *)

\* live feeds parsed in one behaviour
MaxPasses == 2

-----------------------------------------------------------------------------
(* The static tables.  Days 3, 4 and 5 are a Thursday, a Friday and a     *)
(* Saturday.                                                               *)

\* day 0 is a Monday
Thu == 0 + 3

Fri == Thu + 1

Sat == Thu + 2

AgencyRows == << [agency_id |-> "a1", agency_name |-> "Dublin Bus"] >>

RouteRows ==
    << [route_id |-> "r49", agency |-> "a1", short_name |-> "49"],
       [route_id |-> "r68", agency |-> "a1", short_name |-> "68"],
       [route_id |-> "r27", agency |-> "a1", short_name |-> "27"] >>

\* "180" runs on Fridays only; "dly" every day; "wkd" Monday to Friday
CalendarRows ==
    << [service_id |-> "180", start_date |-> Thu, end_date |-> Sat,
        days |-> <<FALSE, FALSE, FALSE, FALSE, TRUE, FALSE, FALSE>>],
       [service_id |-> "dly", start_date |-> 0, end_date |-> Sat + 2,
        days |-> <<TRUE, TRUE, TRUE, TRUE, TRUE, TRUE, TRUE>>],
       [service_id |-> "wkd", start_date |-> 0, end_date |-> Fri,
        days |-> <<TRUE, TRUE, TRUE, TRUE, TRUE, FALSE, FALSE>>] >>

\* "dly" does not run on the Saturday; "wkd" runs on it by exception
CalendarDateRows ==
    << [service_id |-> "dly", date |-> Sat, exception_type |-> 2],
       [service_id |-> "wkd", date |-> Sat, exception_type |-> 1] >>

\* the second stop has no stop code: its stop number is its stop_id
StopRows ==
    << [stop_id |-> "8220DB001358", stop_code |-> "1358"],
       [stop_id |-> "700000015365", stop_code |-> ""] >>

TripRows ==
    << [route_id |-> "r49", service_id |-> "180", trip_id |-> "3582_11643"],
       [route_id |-> "r68", service_id |-> "dly", trip_id |-> "3582_6405"],
       [route_id |-> "r27", service_id |-> "wkd", trip_id |-> "3599_6532"] >>

TripIds == {TripRows[i].trip_id : i \in DOMAIN TripRows}

\* arrival_time values HH:MM:SS of stop_times.txt, as <<HH, MM, SS>>
ArrivalTimes ==
    { <<23, 58, 0>>, <<0, 10, 0>>, <<24, 10, 0>>,
      <<9, 30, 0>>, <<9, 50, 0>>, <<10, 50, 0>>, <<11, 5, 0>> }

\* one row of stop_times.txt
StopTimeRow(trip_id, t, stop_id, stop_sequence) ==
    [trip_id |-> trip_id, arrival_hour |-> t[1], arrival_min |-> t[2],
     arrival_sec |-> t[3], stop_id |-> stop_id, stop_sequence |-> stop_sequence]

\* The static inputs of the model: every trip calls at stop 1358 as its
\* second stop; the times of the first two trips vary, the third trip
\* calls at 09:50:00 and, as its first stop, at the stop without a code.
\* arrival times of the first trip at stop 1358
ArrivalTimes1 == { <<24, 10, 0>>, <<9, 30, 0>> }

StaticInputs ==
    { [agency |-> AgencyRows, routes |-> RouteRows, calendar |-> CalendarRows,
       calendar_dates |-> CalendarDateRows, stops |-> StopRows, trips |-> TripRows,
       stop_times |->
           << StopTimeRow("3582_11643", t1, "8220DB001358", 2),
              StopTimeRow("3582_6405", t2, "8220DB001358", 2),
              StopTimeRow("3599_6532", <<9, 45, 0>>, "700000015365", 1),
              StopTimeRow("3599_6532", <<9, 50, 0>>, "8220DB001358", 2) >>]
      : t1 \in ArrivalTimes1, t2 \in ArrivalTimes }

-----------------------------------------------------------------------------
(* Store (src/store.py), in-process backend.  Store.data maps a namespace  *)
(* to a dict or, once add/remove/has/cardinality has touched it, to a set. *)
(* A namespace that Store.data does not hold yet is not in DOMAIN d.       *)

NsDict(f) == [kind |-> "dict", map |-> f, members |-> {}]

NsSet(S) == [kind |-> "set", map |-> << >>, members |-> S]

\* d with namespace ns bound to v
WithNs(d, ns, v) == [n \in DOMAIN d \cup {ns} |-> IF n = ns THEN v ELSE d[n]]

\* f with key k bound to v
WithKey(f, k, v) == [x \in DOMAIN f \cup {k} |-> IF x = k THEN v ELSE f[x]]

\* Store.get(namespace, key), default None: the namespaces read with get
\* are dicts, and no value stored in them is falsy.
Store_get(d, ns, key) ==
    IF ns \in DOMAIN d /\ key \in DOMAIN d[ns].map THEN Some(d[ns].map[key]) ELSE None

\* Store.get(namespace, key, default)
Store_get_default(d, ns, key, default) ==
    IF IsNone(Store_get(d, ns, key)) THEN default ELSE Val(Store_get(d, ns, key))

\* bool(value) of a value written as a Python literal
Truthy(value) == value \notin { "0", "False", "[]", "{}", "''" }

\* Store.get raises AttributeError when the namespace holds a set:
\* self.data.get(namespace, {}).get(key)
Store_get_raises(d, ns) == ns \in DOMAIN d /\ d[ns].kind = "set"

\* Store.get(namespace, key, default) in process, for values that may be
\* falsy: "if cached_item:" takes a falsy value for a missing one.  The
\* default and the value returned are None or a value.
Store_get_value(d, ns, key, default) ==
    LET cached_item == Store_get(d, ns, key)
        value == IF ~IsNone(cached_item) /\ Truthy(Val(cached_item))
                 THEN cached_item ELSE None
    IN  IF ~IsNone(value) THEN value ELSE default

\* Store.delete(namespace, key): the key is removed from the hash
Store_delete(d, ns, key) ==
    IF ns \in DOMAIN d /\ d[ns].kind = "dict"
    THEN WithNs(d, ns, NsDict([k \in DOMAIN d[ns].map \ {key} |-> d[ns].map[k]]))
    ELSE d

\* Store.set raises TypeError when the namespace holds a set:
\* self.data[namespace][key] = value
Store_set_raises(d, ns) == ns \in DOMAIN d /\ d[ns].kind = "set"

\* Store.set(namespace, key, value) when it does not raise; Store.data is a
\* defaultdict(dict), a missing namespace starts as an empty dict
Store_set(d, ns, key, value) ==
    WithNs(d, ns, NsDict(WithKey(IF ns \in DOMAIN d THEN d[ns].map ELSE << >>, key, value)))

\* Store.add(namespace, value): self.data.setdefault(namespace, set()).add(value)
Store_add(d, ns, value) ==
    WithNs(d, ns, NsSet((IF ns \in DOMAIN d THEN d[ns].members ELSE {}) \cup {value}))

\* Store.remove as it would raise with set.remove in place of set.discard:
\* KeyError for a value that is not in the set
Store_remove_raises_absent(d, ns, value) ==
    IF ns \in DOMAIN d THEN d[ns].kind = "dict" \/ value \notin d[ns].members ELSE TRUE

\* Store.remove raises AttributeError when the namespace holds a dict:
\* self.data.setdefault(namespace, set()).discard(value)
Store_remove_raises(d, ns, value) == ns \in DOMAIN d /\ d[ns].kind = "dict"

\* Store.remove(namespace, value) when it does not raise
Store_remove(d, ns, value) ==
    WithNs(d, ns, NsSet((IF ns \in DOMAIN d THEN d[ns].members ELSE {}) \ {value}))

\* Store.cardinality(namespace), the value returned:
\* len(self.data.setdefault(namespace, set())); on a dict, the number of keys
Store_cardinality(d, ns) ==
    IF ns \notin DOMAIN d THEN 0
    ELSE IF d[ns].kind = "set" THEN Cardinality(d[ns].members)
    ELSE Cardinality(DOMAIN d[ns].map)

\* Store.write_cache() in process: pickle.dump(self.data, f); the file
\* then holds a copy of Store.data
Store_write_cache(d) == Some(d)

\* Store.reload_cache as it would be if the snapshot were merged into
\* Store.data (dict.update) instead of replacing it
Store_reload_cache_update(d, file) ==
    IF IsNone(file) THEN d
    ELSE [ns \in DOMAIN d \cup DOMAIN Val(file) |->
             IF ns \in DOMAIN Val(file) THEN Val(file)[ns] ELSE d[ns]]

\* Store.reload_cache(): self.data = pickle.load(f) when the file exists
Store_reload_cache(d, file) == IF IsNone(file) THEN d ELSE Val(file)

\* Store.has as it would be if it looked for the value in a set only
Store_has_set_only(d, ns, value) == ns \in DOMAIN d /\ value \in d[ns].members

\* Store.has(namespace, value), the value returned:
\* value in self.data.setdefault(namespace, set()); on a dict this is
\* membership among its keys
Store_has(d, ns, value) ==
    /\ ns \in DOMAIN d
    /\ IF d[ns].kind = "set" THEN value \in d[ns].members ELSE value \in DOMAIN d[ns].map

\* Store.has(namespace, value), its effect on Store.data: setdefault binds a
\* missing namespace to an empty set
Store_has_data(d, ns) == IF ns \in DOMAIN d THEN d ELSE WithNs(d, ns, NsSet({}))

-----------------------------------------------------------------------------
(* Store with the external backend (redis_url given): the values live in   *)
(* the hashes of the backend, and Store.data is the hot cache, which holds *)
(* the pairs (t, value) that get puts into the namespaces configured with  *)
(* 'cache'.                                                                *)

\* the expiry that GTFS.__init__ configures for its cached namespaces
Expiry == 3600

\* a namespace_config: 'route' as GTFS.__init__ configures it, 'testhash'
\* cached with no 'expiry'; every other namespace has no configuration
namespace_config ==
    [route |-> [cache |-> TRUE, expiry |-> Some(Expiry)],
     testhash |-> [cache |-> TRUE, expiry |-> None]]

\* config.get('cache') of self.namespace_config.get(namespace, {})
IsCachable(config, ns) == ns \in DOMAIN config /\ config[ns].cache

\* config.get('expiry') of self.namespace_config.get(namespace, {})
ExpiryOf(config, ns) == IF ns \in DOMAIN config THEN config[ns].expiry ELSE None

\* redis.hget(namespace, key), unpickled: None for a missing field
Redis_hget(r, ns, key) ==
    IF ns \in DOMAIN r /\ key \in DOMAIN r[ns] THEN Some(r[ns][key]) ELSE None

\* Store.set with the backend: redis.hset(namespace, key, pickle.dumps(value));
\* Store.data is not touched
Redis_hset(r, ns, key, value) ==
    [n \in DOMAIN r \cup {ns} |->
        IF n = ns THEN WithKey(IF ns \in DOMAIN r THEN r[ns] ELSE << >>, key, value)
        ELSE r[n]]

\* del self.data[namespace][key]
WithoutKey(d, ns, key) ==
    WithNs(d, ns, NsDict([k \in DOMAIN d[ns].map \ {key} |-> d[ns].map[k]]))

\* the freshness test as it would be with "<=" in place of "<"
Fresh_le(expiry, now, t) == IsNone(expiry) \/ now - t <= Val(expiry)

\* "expiry is None or now - t < expiry"
Fresh(expiry, now, t) == IsNone(expiry) \/ now - t < Val(expiry)

\* Store.get(namespace, key, default) with the backend r, at time now: the
\* value returned (None or a value) and Store.data after the call
Store_get_redis(d, r, config, ns, key, default, now) ==
    LET is_cachable == IsCachable(config, ns)
        expiry == ExpiryOf(config, ns)
        cached_item == Store_get(d, ns, key)
        expired == /\ ~IsNone(cached_item)
                   /\ is_cachable
                   /\ ~Fresh(expiry, now, Val(cached_item).t)
        value == IF IsNone(cached_item) THEN None
                 ELSE IF is_cachable
                      THEN IF expired THEN None ELSE Val(cached_item).value
                      ELSE IF Truthy(Val(cached_item)) THEN cached_item ELSE None
        d1 == IF expired THEN WithoutKey(d, ns, key) ELSE d
        fetched == Redis_hget(r, ns, key)
        value2 == IF IsNone(fetched) THEN default ELSE fetched
        d2 == IF is_cachable
              THEN Store_set(d1, ns, key, [t |-> now, value |-> value2])
              ELSE d1
    IN  IF IsNone(value) THEN [value |-> value2, data |-> d2]
        ELSE [value |-> value, data |-> d1]

-----------------------------------------------------------------------------
(* Packed records (struct formats '12s4b' and '12s4s') *)

\* a struct field 'ns' followed by _b2s: the string cut to n bytes (the
\* identifiers of the model are ASCII and hold no NUL)
Field(str, n) == IF Len(str) > n THEN SubSeq(str, 1, n) ELSE str

\* a struct field 'b' holds a signed 8-bit integer; struct.pack raises otherwise
FitsInt8(x) == -128 <= x /\ x <= 127

\* GTFS._pack_stop_data followed by GTFS._unpack_stop_data
_pack_stop_data(trip_id, arrival_hour, arrival_min, arrival_sec, stop_sequence) ==
    [trip_id |-> Field(trip_id, 12), arrival_hour |-> arrival_hour,
     arrival_min |-> arrival_min, arrival_sec |-> arrival_sec,
     stop_sequence |-> stop_sequence]

\* GTFS._pack_trip followed by GTFS._unpack_trip
_pack_trip(route_id, service_id) ==
    [route_id |-> Field(route_id, 12), service_id |-> Field(service_id, 4)]

-----------------------------------------------------------------------------
(* The packed records byte by byte.  A string is the sequence of its code  *)
(* points (below 2048), a buffer a sequence of bytes 0 .. 255.             *)

\* _s2b: s.encode("utf-8"); a code point from 128 on takes two bytes
RECURSIVE _s2b(_)
_s2b(s) ==
    IF s = << >> THEN << >>
    ELSE (IF Head(s) < 128 THEN << Head(s) >>
          ELSE << 192 + (Head(s) \div 64), 128 + (Head(s) % 64) >>) \o _s2b(Tail(s))

\* bytes.decode("utf-8") raises UnicodeDecodeError for a lead byte with no
\* continuation byte after it, and for a continuation byte with no lead byte
RECURSIVE Utf8DecodeRaises(_)
Utf8DecodeRaises(b) ==
    IF b = << >> THEN FALSE
    ELSE IF b[1] < 128 THEN Utf8DecodeRaises(Tail(b))
    ELSE IF b[1] < 192 THEN TRUE
    ELSE IF Len(b) < 2 THEN TRUE
    ELSE IF b[2] < 128 \/ b[2] >= 192 THEN TRUE
    ELSE Utf8DecodeRaises(Tail(Tail(b)))

\* bytes.decode("utf-8") when it does not raise
RECURSIVE Utf8Decode(_)
Utf8Decode(b) ==
    IF b = << >> THEN << >>
    ELSE IF b[1] < 128 THEN << b[1] >> \o Utf8Decode(Tail(b))
    ELSE << (b[1] - 192) * 64 + (b[2] - 128) >> \o Utf8Decode(Tail(Tail(b)))

\* s.split(chr(0))[0]: what comes before the first NUL
RECURSIVE BeforeNul(_)
BeforeNul(s) ==
    IF s = << >> THEN << >>
    ELSE IF Head(s) = 0 THEN << >>
    ELSE << Head(s) >> \o BeforeNul(Tail(s))

\* _b2s: b.decode("utf-8").split(chr(0))[0]
_b2s(b) == BeforeNul(Utf8Decode(b))

\* struct.pack of a field 'ns': the bytes cut to n, or padded with NUL to n
PackS(b, n) == [i \in 1 .. n |-> IF i <= Len(b) THEN b[i] ELSE 0]

\* struct.pack of a field 'b': the byte of a signed 8-bit integer
PackB(x) == x % 256

\* struct.unpack of a field 'b'
UnpackB(byte) == IF byte >= 128 THEN byte - 256 ELSE byte

\* GTFS._pack_stop_data raises struct.error when a number does not fit 'b'
_pack_stop_data_raises(trip_id, arrival_hour, arrival_min, arrival_sec, stop_sequence) ==
    \E x \in { arrival_hour, arrival_min, arrival_sec, stop_sequence } : ~FitsInt8(x)

\* GTFS._pack_stop_data as it would be if it packed the hour of the bucket
\* (arrival_hour % 24)
_pack_stop_data_bytes_mod24(trip_id, arrival_hour, arrival_min, arrival_sec, stop_sequence) ==
    PackS(_s2b(trip_id), 12)
        \o << PackB(arrival_hour % 24), PackB(arrival_min), PackB(arrival_sec),
              PackB(stop_sequence) >>

\* GTFS._pack_stop_data: struct.pack('12s4b', ...), the 16 bytes
_pack_stop_data_bytes(trip_id, arrival_hour, arrival_min, arrival_sec, stop_sequence) ==
    PackS(_s2b(trip_id), 12)
        \o << PackB(arrival_hour), PackB(arrival_min), PackB(arrival_sec),
              PackB(stop_sequence) >>

\* GTFS._unpack_stop_data raises when the 12 bytes are not UTF-8
_unpack_stop_data_raises(trip_buffer) == Utf8DecodeRaises(SubSeq(trip_buffer, 1, 12))

\* GTFS._unpack_stop_data: struct.unpack('12s4b', trip_buffer)
_unpack_stop_data(trip_buffer) ==
    << _b2s(SubSeq(trip_buffer, 1, 12)), UnpackB(trip_buffer[13]),
       UnpackB(trip_buffer[14]), UnpackB(trip_buffer[15]), UnpackB(trip_buffer[16]) >>

\* GTFS._pack_trip: struct.pack('12s4s', ...), the 16 bytes
_pack_trip_bytes(route_id, service_id) ==
    PackS(_s2b(route_id), 12) \o PackS(_s2b(service_id), 4)

\* GTFS._unpack_trip raises when a field is not UTF-8
_unpack_trip_raises(trip_buffer) ==
    \/ Utf8DecodeRaises(SubSeq(trip_buffer, 1, 12))
    \/ Utf8DecodeRaises(SubSeq(trip_buffer, 13, 16))

\* GTFS._unpack_trip: struct.unpack('12s4s', trip_buffer)
_unpack_trip(trip_buffer) ==
    << _b2s(SubSeq(trip_buffer, 1, 12)), _b2s(SubSeq(trip_buffer, 13, 16)) >>

-----------------------------------------------------------------------------
(* GTFS.load_static, reading static tables st into store data d *)

\* str(x) of an optional string, as an f-string renders it
Fmt(x) == IF IsNone(x) THEN "None" ELSE Val(x)

RECURSIVE _read_routes(_, _)
_read_routes(d, rows) ==
    IF rows = << >> THEN d
    ELSE _read_routes(
            Store_set(d, "route", Head(rows).route_id,
                      [name |-> Head(rows).short_name, agency |-> Head(rows).agency]),
            Tail(rows))

RECURSIVE _read_agencies(_, _)
_read_agencies(d, rows) ==
    IF rows = << >> THEN d
    ELSE _read_agencies(
            Store_set(d, "agency", Head(rows).agency_id, Head(rows).agency_name),
            Tail(rows))

RECURSIVE _read_calendar(_, _)
_read_calendar(d, rows) ==
    IF rows = << >> THEN d
    ELSE _read_calendar(
            Store_set(d, "service", Head(rows).service_id,
                      [start_date |-> Head(rows).start_date,
                       end_date |-> Head(rows).end_date,
                       days |-> Head(rows).days]),
            Tail(rows))

\* the key f"{service_id}:{date}" is the pair <<service_id, date>>
RECURSIVE _read_exceptions(_, _)
_read_exceptions(d, rows) ==
    IF rows = << >> THEN d
    ELSE _read_exceptions(
            Store_set(d, "exception", <<Head(rows).service_id, Head(rows).date>>,
                      Head(rows).exception_type),
            Tail(rows))

\* the stop number as it would be if the stop code were used as it is
StopNumberOf_code_only(row) == row.stop_code

\* stop_number = row[1] or row[0]
StopNumberOf(row) == IF row.stop_code # "" THEN row.stop_code ELSE row.stop_id

RECURSIVE _read_stops(_, _)
_read_stops(d, rows) ==
    IF rows = << >> THEN d
    ELSE _read_stops(
            Store_add(Store_set(d, "stop", Head(rows).stop_id, StopNumberOf(Head(rows))),
                      "stop_numbers", StopNumberOf(Head(rows))),
            Tail(rows))

\* the row is skipped: "if self.filter_stops and stop_number not in self.filter_stops"
\* (an empty filter is falsy and filters nothing)
StopFilteredOut(fs, stop_number) ==
    /\ ~IsNone(fs)
    /\ Val(fs) # {}
    /\ Fmt(stop_number) \notin Val(fs) \/ IsNone(stop_number)

\* The loop of _read_stop_times over the rows: the local dict stop_times,
\* keyed here by the pair <<str(stop_number), hour>> that the store key
\* f"{stop_number}:{hour}" is built from.
RECURSIVE StopTimeBuckets(_, _, _, _)
StopTimeBuckets(d, fs, rows, buckets) ==
    IF rows = << >> THEN buckets
    ELSE LET row == Head(rows)
             stop_number == Store_get(d, "stop", row.stop_id)
             hour == row.arrival_hour % 24
             key == <<Fmt(stop_number), hour>>
             packed == _pack_stop_data(row.trip_id, row.arrival_hour, row.arrival_min,
                                       row.arrival_sec, row.stop_sequence)
         IN  IF StopFilteredOut(fs, stop_number)
             THEN StopTimeBuckets(d, fs, Tail(rows), buckets)
             ELSE StopTimeBuckets(d, fs, Tail(rows),
                     WithKey(buckets, key,
                         Append(IF key \in DOMAIN buckets THEN buckets[key] ELSE << >>,
                                packed)))

\* self.stop_trips[stop_number] after the loop
stop_trips(d, rows, stop_number) ==
    { rows[i].trip_id : i \in { j \in DOMAIN rows :
                                  Store_get(d, "stop", rows[j].stop_id) = stop_number } }

RECURSIVE SetBuckets(_, _, _)
SetBuckets(d, buckets, keys) ==
    IF keys = {} THEN d
    ELSE LET key == CHOOSE k \in keys : TRUE
         IN  SetBuckets(Store_set(d, "stop_times", key, buckets[key]), buckets,
                        keys \ {key})

\* _read_stop_times as it would be if each packed stop time were put at the
\* head of the list of its bucket
_read_stop_times_prepend(d, fs, rows) ==
    LET buckets == StopTimeBuckets(d, fs, rows, << >>)
        reversed == [k \in DOMAIN buckets |->
                        [i \in 1 .. Len(buckets[k]) |-> buckets[k][Len(buckets[k]) + 1 - i]]]
    IN  SetBuckets(d, reversed, DOMAIN reversed)

\* GTFS._read_stop_times, its effect on the store
_read_stop_times(d, fs, rows) ==
    LET buckets == StopTimeBuckets(d, fs, rows, << >>)
    IN  SetBuckets(d, buckets, DOMAIN buckets)

\* GTFS._read_stop_times, the value it leaves in self.filter_trips
FilterTripsOf(d, fs, rows) ==
    IF IsNone(fs) THEN None
    ELSE Some(UNION { stop_trips(d, rows, Some(s)) : s \in Val(fs) })

\* the row is skipped: "if self.filter_trips and trip_id not in self.filter_trips"
TripFilteredOut(ft, trip_id) == ~IsNone(ft) /\ Val(ft) # {} /\ trip_id \notin Val(ft)

RECURSIVE _read_trips(_, _, _)
_read_trips(d, ft, rows) ==
    IF rows = << >> THEN d
    ELSE _read_trips(
            IF TripFilteredOut(ft, Head(rows).trip_id) THEN d
            ELSE Store_set(d, "trip", Head(rows).trip_id,
                           _pack_trip(Head(rows).route_id, Head(rows).service_id)),
            ft, Tail(rows))

\* every stop_times row can be packed (otherwise struct.error ends the load)
Packable(st) ==
    \A i \in DOMAIN st.stop_times :
        /\ FitsInt8(st.stop_times[i].arrival_hour)
        /\ FitsInt8(st.stop_times[i].arrival_min)
        /\ FitsInt8(st.stop_times[i].arrival_sec)
        /\ FitsInt8(st.stop_times[i].stop_sequence)

\* GTFS.load_static on an empty store, when no row raises
load_static(st, fs) ==
    LET d1 == _read_routes(<< >>, st.routes)
        d2 == _read_agencies(d1, st.agency)
        d3 == _read_calendar(d2, st.calendar)
        d4 == _read_exceptions(d3, st.calendar_dates)
        d5 == _read_stops(d4, st.stops)
        d6 == _read_stop_times(d5, fs, st.stop_times)
        d7 == _read_trips(d6, FilterTripsOf(d5, fs, st.stop_times), st.trips)
    IN  Store_set(d7, "status", "initialized", TRUE)

-----------------------------------------------------------------------------
(* GTFS.get_trip_info and GTFS._get_live_delay *)

\* get_trip_info raises TypeError (only KeyError is caught) when the trip
\* and its route are stored and its service is not: calendar_info['start_date']
get_trip_info_raises(d, trip_id) ==
    LET packed_trip == Store_get(d, "trip", trip_id)
    IN  /\ ~IsNone(packed_trip)
        /\ ~IsNone(Store_get(d, "route", Val(packed_trip).route_id))
        /\ IsNone(Store_get(d, "service", Val(packed_trip).service_id))

\* GTFS.get_trip_info(trip_id) when it does not raise: None or the joined record
get_trip_info(d, trip_id) ==
    LET packed_trip == Store_get(d, "trip", trip_id)
    IN  IF IsNone(packed_trip) THEN None
        ELSE LET route_id == Val(packed_trip).route_id
                 service_id == Val(packed_trip).service_id
                 route_info == Store_get(d, "route", route_id)
             IN  IF IsNone(route_info) THEN None
                 ELSE LET agency_info == Store_get(d, "agency", Val(route_info).agency)
                          calendar_info == Val(Store_get(d, "service", service_id))
                      IN  Some([route |-> Val(route_info).name,
                                agency |-> agency_info,
                                service_id |-> service_id,
                                start_date |-> calendar_info.start_date,
                                end_date |-> calendar_info.end_date,
                                days |-> calendar_info.days])

\* the while loop of _get_live_delay (0-based left and right, updates is
\* 1-based): the delay of an exact match, else the value of left at the end
RECURSIVE BinarySearch(_, _, _, _)
BinarySearch(updates, stop_sequence, left, right) ==
    IF left > right THEN [found |-> FALSE, left |-> left, delay |-> None]
    ELSE LET mid == (left + right) \div 2
         IN  IF updates[mid + 1].stop_sequence < stop_sequence
             THEN BinarySearch(updates, stop_sequence, mid + 1, right)
             ELSE IF updates[mid + 1].stop_sequence > stop_sequence
             THEN BinarySearch(updates, stop_sequence, left, mid - 1)
             ELSE [found |-> TRUE, left |-> left, delay |-> updates[mid + 1].delay]

\* _get_live_delay as it would be without the delay of the previous stop
_get_live_delay_exact_only(d, trip_id, stop_sequence) ==
    LET updates == Store_get_default(d, "live_delays", trip_id, << >>)
    IN  IF updates = << >> THEN None
        ELSE BinarySearch(updates, stop_sequence, 0, Len(updates) - 1).delay

\* GTFS._get_live_delay(trip_id, stop_sequence): None or a delay in seconds
_get_live_delay(d, trip_id, stop_sequence) ==
    LET updates == Store_get_default(d, "live_delays", trip_id, << >>)
    IN  IF updates = << >> THEN None
        ELSE LET r == BinarySearch(updates, stop_sequence, 0, Len(updates) - 1)
             IN  IF r.found THEN r.delay
                 ELSE IF r.left = 0 THEN None
                 ELSE updates[r.left].delay

-----------------------------------------------------------------------------
(* GTFS.get_scheduled_arrivals *)

\* try_hours: the hour before now, then now.hour .. now.hour + max_wait // 3600
try_hours(now, max_wait) ==
    << IF HourOf(now) = 0 THEN 23 ELSE HourOf(now) - 1 >>
    \o [i \in 1 .. (max_wait \div Hour) + 1 |-> (HourOf(now) + i - 1) % 24]

\* the packed stop times of the buckets of try_hours, in the order the two
\* nested loops visit them; a missing bucket is skipped
RECURSIVE BucketEntries(_, _, _)
BucketEntries(d, stop_number, hours) ==
    IF hours = << >> THEN << >>
    ELSE Store_get_default(d, "stop_times", <<stop_number, Head(hours)>>, << >>)
         \o BucketEntries(d, stop_number, Tail(hours))

time_since_midnight(now) == timedelta(HourOf(now), MinuteOf(now), SecondOf(now))

\* the rollover test as it would be with the two times exchanged
RollsOver_exchanged(now, arrival_time) ==
    arrival_time - timedelta(12, 0, 0) > time_since_midnight(now)

\* "if the arrival time over 12 hours in the past, assume it refers to
\* tomorrow": time_since_midnight - 12h > arrival_time
RollsOver(now, arrival_time) == time_since_midnight(now) - timedelta(12, 0, 0) > arrival_time

\* arrival_datetime of a packed stop time for a query at now
ArrivalDatetime(now, p) ==
    LET arrival_time == timedelta(p.arrival_hour, p.arrival_min, p.arrival_sec)
    IN  Midnight(DateOf(now))
        + (IF RollsOver(now, arrival_time) THEN arrival_time + DaySeconds
                                           ELSE arrival_time)

\* service_is_scheduled of a joined trip record on a date
service_is_scheduled(trip_info, date) ==
    /\ trip_info.start_date <= date
    /\ date <= trip_info.end_date
    /\ trip_info.days[weekday(date) + 1]

\* the run predicate as it would be without the removed exceptions
ServiceRuns_ignore_removed(d, trip_info, date) ==
    Store_get(d, "exception", <<trip_info.service_id, date>>) = Some(EXCEPTION_ADDED)
    \/ service_is_scheduled(trip_info, date)

\* "if added or service_is_scheduled and not removed", with the exception
\* stored for the service on the date
ServiceRuns(d, trip_info, date) ==
    LET calendar_exception == Store_get(d, "exception", <<trip_info.service_id, date>>)
        added == calendar_exception = Some(EXCEPTION_ADDED)
        removed == calendar_exception = Some(EXCEPTION_REMOVED)
    IN  added \/ (service_is_scheduled(trip_info, date) /\ ~removed)

\* "if it has not already arrived"
NotArrived(arrival, now) ==
    \/ arrival.scheduled_arrival > now
    \/ (~IsNone(arrival.real_time_arrival) /\ Val(arrival.real_time_arrival) > now)

\* The arrival built from packed stop time p.  The field stop_time is not in
\* the dict the code returns: it records what the arrival was built from
\* (<< p >>, or << >> for a live addition).
ArrivalOf(d, now, p, trip_info) ==
    LET delay == _get_live_delay(d, p.trip_id, p.stop_sequence)
    IN  [route |-> trip_info.route,
         agency |-> trip_info.agency,
         scheduled_arrival |-> ArrivalDatetime(now, p),
         real_time_arrival |->
             IF IsNone(delay) THEN None ELSE Some(ArrivalDatetime(now, p) + Val(delay)),
         stop_time |-> Some(p)]

\* One turn of the inner loop over the packed stop times, on the state
\* acc = [raised, arrivals, data] of the call.
ScanStep(acc, now, p) ==
    IF get_trip_info_raises(acc.data, p.trip_id) THEN [acc EXCEPT !.raised = TRUE]
    ELSE LET trip_info == get_trip_info(acc.data, p.trip_id)
         IN  IF IsNone(trip_info) THEN acc
             ELSE IF ~ServiceRuns(acc.data, Val(trip_info), DateOf(ArrivalDatetime(now, p)))
             THEN acc
             ELSE IF Store_has(acc.data, "live_cancelations", p.trip_id)
             THEN acc
             ELSE LET arrival == ArrivalOf(acc.data, now, p, Val(trip_info))
                  IN  [acc EXCEPT
                         !.data = Store_has_data(acc.data, "live_cancelations"),
                         !.arrivals = IF NotArrived(arrival, now)
                                      THEN Append(acc.arrivals, arrival)
                                      ELSE acc.arrivals]

RECURSIVE ScanStopTimes(_, _, _)
ScanStopTimes(acc, now, entries) ==
    IF entries = << >> \/ acc.raised THEN acc
    ELSE ScanStopTimes(ScanStep(acc, now, Head(entries)), now, Tail(entries))

\* "add any added trips": route_info['agency'] raises TypeError when the
\* route of an added trip is not stored
RECURSIVE AddAddedTrips(_, _)
AddAddedTrips(acc, added_trips) ==
    IF added_trips = << >> \/ acc.raised THEN acc
    ELSE LET added_trip == Head(added_trips)
             route_info == Store_get(acc.data, "route", added_trip.route_id)
         IN  IF IsNone(route_info) THEN [acc EXCEPT !.raised = TRUE]
             ELSE AddAddedTrips(
                     [acc EXCEPT !.arrivals = Append(acc.arrivals,
                         [route |-> Val(route_info).name,
                          agency |-> Store_get(acc.data, "agency", Val(route_info).agency),
                          scheduled_arrival |-> added_trip.arrival,
                          real_time_arrival |-> Some(added_trip.arrival),
                          stop_time |-> None])],
                     Tail(added_trips))

\* the sort key as it would be without the live arrival
SortKey_scheduled_only(x) == x.scheduled_arrival

\* key=lambda x: x['real_time_arrival'] or x['scheduled_arrival']
SortKey(x) ==
    IF IsNone(x.real_time_arrival) THEN x.scheduled_arrival ELSE Val(x.real_time_arrival)

\* x put into the sorted list after every element whose key is not greater
RECURSIVE InsertSorted(_, _)
InsertSorted(sorted, x) ==
    IF sorted = << >> THEN << x >>
    ELSE IF SortKey(Head(sorted)) <= SortKey(x)
    THEN << Head(sorted) >> \o InsertSorted(Tail(sorted), x)
    ELSE << x >> \o sorted

\* list.sort(key=...): a stable sort
RECURSIVE Sort(_)
Sort(list) ==
    IF list = << >> THEN << >>
    ELSE InsertSorted(Sort(SubSeq(list, 1, Len(list) - 1)), list[Len(list)])

\* GTFS.get_scheduled_arrivals(stop_number, now, max_wait) on store data d:
\* whether it raised, the list it returned, and Store.data afterwards
get_scheduled_arrivals(d, stop_number, now, max_wait) ==
    LET scanned == ScanStopTimes([raised |-> FALSE, arrivals |-> << >>, data |-> d], now,
                                 BucketEntries(d, stop_number, try_hours(now, max_wait)))
        added == AddAddedTrips(scanned,
                    Store_get_default(scanned.data, "live_additions", stop_number, << >>))
    IN  IF added.raised THEN [added EXCEPT !.arrivals = << >>]
        ELSE [added EXCEPT !.arrivals = Sort(added.arrivals)]

-----------------------------------------------------------------------------
(* GTFS._parse_live_data.  A feed is [timestamp, entity]; an entity is the  *)
(* trip_update [trip_id, route_id, schedule_relationship, stop_time_update];*)
(* a stop_time_update is [schedule_relationship, stop_id, stop_sequence,    *)
(* arrival_time, arrival_delay], arrival_time = 0 when arrival.time is not  *)
(* set.                                                                     *)

\* the local time zone is one hour ahead of UTC (Irish Standard Time)
UtcOffset == Hour

\* datetime.datetime.fromtimestamp(t): local time of a Unix timestamp
fromtimestamp(t) == t + UtcOffset

\* One turn of the loop over the stop_time_update entries of an entity, on
\* the state acc = [raised, data, trip_delays] of the pass.
ParseStopTimeUpdate(acc, fs, timestamp, entity, stop_time_update) ==
    LET stop_number == Store_get(acc.data, "stop", stop_time_update.stop_id)
    IN  IF stop_time_update.schedule_relationship # STOP_SCHEDULED THEN acc
        ELSE IF IsNone(fs) /\ IsNone(stop_number) THEN acc
        ELSE IF entity.schedule_relationship = TRIP_ADDED /\ ~IsNone(stop_number)
        THEN IF stop_time_update.arrival_time = 0 THEN acc
             ELSE [acc EXCEPT !.data =
                     Store_set(acc.data, "live_additions", Val(stop_number),
                         Append(Store_get_default(acc.data, "live_additions",
                                                  Val(stop_number), << >>),
                                [route_id |-> entity.route_id,
                                 arrival |-> fromtimestamp(stop_time_update.arrival_time),
                                 timestamp |-> timestamp]))]
        ELSE IF entity.schedule_relationship = TRIP_CANCELLED
        \* store.set, then self._live_data, an attribute that is never
        \* initialised: AttributeError
        THEN IF Store_set_raises(acc.data, "live_cancelations")
             THEN [acc EXCEPT !.raised = TRUE]
             ELSE [acc EXCEPT !.raised = TRUE,
                              !.data = Store_set(acc.data, "live_cancelations",
                                                 entity.trip_id, TRUE)]
        ELSE IF entity.schedule_relationship = TRIP_SCHEDULED
        THEN IF get_trip_info_raises(acc.data, entity.trip_id)
             THEN [acc EXCEPT !.raised = TRUE]
             ELSE IF IsNone(get_trip_info(acc.data, entity.trip_id)) THEN acc
             ELSE IF stop_time_update.arrival_time # 0
             THEN [acc EXCEPT !.trip_delays = Append(acc.trip_delays,
                     [stop_sequence |-> stop_time_update.stop_sequence,
                      stop_number |-> stop_number,
                      delay |-> None,
                      arrival_time |-> Some(fromtimestamp(stop_time_update.arrival_time)),
                      timestamp |-> timestamp])]
             ELSE IF stop_time_update.arrival_delay < -WeekSeconds THEN acc
             ELSE [acc EXCEPT !.trip_delays = Append(acc.trip_delays,
                     [stop_sequence |-> stop_time_update.stop_sequence,
                      stop_number |-> stop_number,
                      delay |-> Some(stop_time_update.arrival_delay),
                      arrival_time |-> None,
                      timestamp |-> timestamp])]
        ELSE acc

RECURSIVE ParseStopTimeUpdates(_, _, _, _, _)
ParseStopTimeUpdates(acc, fs, timestamp, entity, updates) ==
    IF updates = << >> \/ acc.raised THEN acc
    ELSE ParseStopTimeUpdates(
            ParseStopTimeUpdate(acc, fs, timestamp, entity, Head(updates)),
            fs, timestamp, entity, Tail(updates))

\* One turn of the loop over the entities of the feed.
ParseEntity(acc, fs, ft, timestamp, entity) ==
    IF TripFilteredOut(ft, entity.trip_id) THEN acc
    ELSE LET done == ParseStopTimeUpdates([acc EXCEPT !.trip_delays = << >>], fs,
                                          timestamp, entity, entity.stop_time_update)
         IN  IF done.raised \/ done.trip_delays = << >> THEN done
             ELSE [done EXCEPT !.data = Store_set(done.data, "live_delays",
                                                  entity.trip_id, done.trip_delays)]

RECURSIVE ParseEntities(_, _, _, _, _)
ParseEntities(acc, fs, ft, timestamp, entities) ==
    IF entities = << >> \/ acc.raised THEN acc
    ELSE ParseEntities(ParseEntity(acc, fs, ft, timestamp, Head(entities)),
                       fs, ft, timestamp, Tail(entities))

\* GTFS._parse_live_data(buf) for the feed that buf decodes to: whether it
\* raised, and Store.data when it returned or raised
_parse_live_data(d, fs, ft, feed) ==
    ParseEntities([raised |-> FALSE, data |-> d, trip_delays |-> << >>],
                  fs, ft, feed.timestamp, feed.entity)

-----------------------------------------------------------------------------
(* The inputs of the operations *)

\* datetime.datetime(day, hour, minute, second)
datetime(d, h, m, s) == Midnight(d) + timedelta(h, m, s)

\* the values of now of the queries
Nows ==
    { datetime(Thu, 23, 30, 0), datetime(Fri, 0, 5, 0), datetime(Fri, 9, 40, 30),
      datetime(Fri, 23, 30, 0), datetime(Sat, 9, 40, 30) }

\* the values of max_wait of the queries: 60 and 90 minutes
MaxWaits == { timedelta(0, 60, 0), timedelta(0, 90, 0) }

\* the stop numbers queried
QueryStops == { "1358" }

\* the Unix time of an added trip's arrival: Friday 09:45:00 local time
AddedArrivalTime == datetime(Fri, 9, 45, 0) - UtcOffset

StopTimeUpdate(rel, stop_id, stop_sequence, arrival_time, arrival_delay) ==
    [schedule_relationship |-> rel, stop_id |-> stop_id,
     stop_sequence |-> stop_sequence, arrival_time |-> arrival_time,
     arrival_delay |-> arrival_delay]

\* The stop_time_update entries of the feeds: a delay of 25 minutes at the
\* first stop, an early arrival at the third stop, an absolute arrival time
\* at the third stop, a skipped stop, a delay of more than a week back, and
\* a stop_id that stops.txt does not list.
Late1 == StopTimeUpdate(STOP_SCHEDULED, "8220DB001358", 1, 0, 1500)

Early3 == StopTimeUpdate(STOP_SCHEDULED, "8220DB001358", 3, 0, -300)

Absolute3 == StopTimeUpdate(STOP_SCHEDULED, "8220DB001358", 3, AddedArrivalTime, 0)

Skipped1 == StopTimeUpdate(STOP_SKIPPED, "8220DB001358", 1, 0, 1500)

Garbage1 == StopTimeUpdate(STOP_SCHEDULED, "8220DB001358", 1, 0, -WeekSeconds - 1)

UnknownStop1 == StopTimeUpdate(STOP_SCHEDULED, "8220DB009999", 1, AddedArrivalTime, 0)

\* the stop_time_update lists of the entities
UpdateLists ==
    { << Late1 >>, << Late1, Early3 >>, << Early3, Late1 >>, << Absolute3 >>,
      << Late1, Absolute3 >>, << Skipped1, Garbage1 >>, << UnknownStop1, Late1 >> }

\* The trip_update entities of the feeds: for a trip of trips.txt on route
\* r68, or for a trip that trips.txt does not list on a route that
\* routes.txt does not list.
Entities ==
    { [trip_id |-> t[1], route_id |-> t[2], schedule_relationship |-> rel,
       stop_time_update |-> u] :
        t \in { <<"3582_6405", "r68">>, <<"9999_1", "r404">> },
        rel \in { TRIP_SCHEDULED, TRIP_ADDED, TRIP_CANCELLED },
        u \in UpdateLists }

\* feed.header.timestamp of the feeds
FeedTimestamp == datetime(Fri, 9, 0, 0) - UtcOffset

\* the feeds: one trip_update entity each
Feeds == { [timestamp |-> FeedTimestamp, entity |-> << e >>] : e \in Entities }

\* the values of filter_stops
FilterStops == { None }

-----------------------------------------------------------------------------
(* The state machine *)

\* last_call: the operation and its arguments (those it does not take are
\* "" or 0)
Call(op, stop_number, now, max_wait, trip_id, stop_sequence) ==
    [op |-> op, stop_number |-> stop_number, now |-> now, max_wait |-> max_wait,
     trip_id |-> trip_id, stop_sequence |-> stop_sequence, args |-> << >>]

\* last_call of the operations of the store and of the packing functions:
\* their arguments are the tuple args
CallArgs(op, args) == [Call(op, "", 0, 0, "", 0) EXCEPT !.args = args]

\* result: whether the operation raised, the list get_scheduled_arrivals
\* returned, the delay _get_live_delay returned
Result(raised, arrivals, delay) ==
    [raised |-> raised, arrivals |-> arrivals, delay |-> delay, value |-> None]

\* result of the other operations: the value returned
Returns(value) == [Result(FALSE, << >>, None) EXCEPT !.value = Some(value)]

\* result of the other operations when they raise
Raises == Result(TRUE, << >>, None)

\* The same GTFS loaded without a stop filter and given the same calls:
\* its store and the outcome of its last call.
Unfiltered(d, raised, arrivals) == [data |-> d, raised |-> raised, arrivals |-> arrivals]

\* GTFS.__init__ with rebuild_cache: the store is cleared, load_static runs
Init ==
    /\ rate_limit_count = 0
    /\ threads = None
    /\ static \in StaticInputs
    /\ Packable(static)
    /\ filter_stops \in FilterStops
    /\ filter_trips = FilterTripsOf(_read_stops(<< >>, static.stops), filter_stops,
                                    static.stop_times)
    /\ data = load_static(static, filter_stops)
    /\ passes = 0
    /\ last_call = Call("__init__", "", 0, 0, "", 0)
    /\ result = Result(FALSE, << >>, None)
    /\ cache_file = Some(data)
    /\ store2 = None
    /\ redis = None
    /\ clock = 0
    /\ reference = None

\* one call of GTFS._parse_live_data
ParseLiveData(feed) ==
    /\ passes < MaxPasses
    /\ LET parsed == _parse_live_data(data, filter_stops, filter_trips, feed)
       IN  /\ data' = parsed.data
           /\ result' = Result(parsed.raised, << >>, None)
    /\ passes' = passes + 1
    /\ last_call' = [Call("_parse_live_data", "", 0, 0, "", 0) EXCEPT !.args = << feed >>]
    /\ reference' =
          IF IsNone(reference) THEN None
          ELSE LET parsed == _parse_live_data(Val(reference).data, None, None, feed)
               IN  Some(Unfiltered(parsed.data, parsed.raised, << >>))
    /\ UNCHANGED <<rate_limit_count, threads, static, filter_stops, filter_trips, cache_file, store2, redis, clock>>

\* one call of GTFS.get_scheduled_arrivals
GetScheduledArrivals(stop_number, now, max_wait) ==
    /\ LET got == get_scheduled_arrivals(data, stop_number, now, max_wait)
       IN  /\ data' = got.data
           /\ result' = Result(got.raised, got.arrivals, None)
    /\ last_call' = Call("get_scheduled_arrivals", stop_number, now, max_wait, "", 0)
    /\ reference' =
          IF IsNone(reference) THEN None
          ELSE LET got == get_scheduled_arrivals(Val(reference).data, stop_number,
                                                 now, max_wait)
               IN  Some(Unfiltered(got.data, got.raised, got.arrivals))
    /\ UNCHANGED <<rate_limit_count, threads, static, filter_stops, filter_trips, passes, cache_file, store2,
                   redis, clock>>

Next ==
    \/ \E feed \in Feeds : ParseLiveData(feed)
    \/ \E stop_number \in QueryStops, now \in Nows, max_wait \in MaxWaits :
           GetScheduledArrivals(stop_number, now, max_wait)

Spec == Init /\ [][Next]_vars

-----------------------------------------------------------------------------
(* The delay lookup on its own: the store holds any list of updates for    *)
(* one trip, sorted or not, and _get_live_delay is called on it.           *)

\* the longest LiveDelays list of the lookups
MaxDelays == 3

\* the entries of the lists: stops 1, 2 and 4, a delay or an absolute time
DelayEntries ==
    { [stop_sequence |-> q, stop_number |-> Some("1358"), delay |-> x[1],
       arrival_time |-> x[2], timestamp |-> FeedTimestamp] :
        q \in { 1, 2, 4 },
        x \in { << Some(60), None >>, << Some(-90), None >>,
                << None, Some(fromtimestamp(AddedArrivalTime)) >> } }

\* the stop sequences looked up
StopSequences == 0 .. 5

\* the trips looked up: the one with updates, and one without
LookupTrips == { "3582_6405", "3582_11643" }

InitLookup ==
    /\ rate_limit_count = 0
    /\ threads = None
    /\ static = CHOOSE st \in StaticInputs : TRUE
    /\ filter_stops = None
    /\ filter_trips = None
    /\ \E n \in 0 .. MaxDelays : \E updates \in [1 .. n -> DelayEntries] :
          data = IF n = 0 THEN load_static(static, None)
                 ELSE Store_set(load_static(static, None), "live_delays",
                                "3582_6405", updates)
    /\ passes = 0
    /\ last_call = Call("__init__", "", 0, 0, "", 0)
    /\ result = Result(FALSE, << >>, None)
    /\ cache_file = None
    /\ store2 = None
    /\ redis = None
    /\ clock = 0
    /\ reference = None

\* one call of GTFS._get_live_delay
GetLiveDelay(trip_id, stop_sequence) ==
    /\ result' = Result(FALSE, << >>, _get_live_delay(data, trip_id, stop_sequence))
    /\ last_call' = Call("_get_live_delay", "", 0, 0, trip_id, stop_sequence)
    /\ UNCHANGED <<rate_limit_count, threads, static, filter_stops, filter_trips, data, passes, cache_file,
                   store2, redis, clock, reference>>

NextLookup ==
    \E trip_id \in LookupTrips, stop_sequence \in StopSequences :
        GetLiveDelay(trip_id, stop_sequence)

SpecLookup == InitLookup /\ [][NextLookup]_vars

-----------------------------------------------------------------------------
(* Loading with and without a stop filter, from static tables with broken  *)
(* links: a stop_times row whose stop_id stops.txt does not list, a trip   *)
(* whose route, a trip whose service and a route whose agency are missing. *)

\* GTFS.is_valid_stop_number(stop_number), the value returned
is_valid_stop_number(d, stop_number) == Store_has(d, "stop_numbers", stop_number)

\* route r77 names an agency that agency.txt does not list
LoadRouteRows ==
    RouteRows \o << [route_id |-> "r77", agency |-> "a9", short_name |-> "77A"] >>

\* trip 3590_1 is on a route that routes.txt does not list, trip 3591_1 has
\* a service that calendar.txt does not list, trip 3592_1 is on route r77
LoadTripRows ==
    TripRows \o
    << [route_id |-> "r404", service_id |-> "dly", trip_id |-> "3590_1"],
       [route_id |-> "r49", service_id |-> "gone", trip_id |-> "3591_1"],
       [route_id |-> "r77", service_id |-> "dly", trip_id |-> "3592_1"] >>

LoadTripIds == {LoadTripRows[i].trip_id : i \in DOMAIN LoadTripRows}

\* the rows of stop_times.txt that a static input may hold besides the two
\* it always holds; the first names a stop_id that stops.txt does not list
LoadOptionalRows ==
    << StopTimeRow("3582_6405", <<9, 48, 0>>, "8220DB009999", 1),
       StopTimeRow("3590_1", <<9, 52, 0>>, "8220DB001358", 2),
       StopTimeRow("3591_1", <<9, 55, 0>>, "8220DB001358", 2),
       StopTimeRow("3592_1", <<9, 58, 0>>, "8220DB001358", 2) >>

\* the rows i of LoadOptionalRows with i in S, in order
RECURSIVE OptionalRows(_, _)
OptionalRows(S, i) ==
    IF i > Len(LoadOptionalRows) THEN << >>
    ELSE (IF i \in S THEN << LoadOptionalRows[i] >> ELSE << >>) \o OptionalRows(S, i + 1)

LoadStaticInputs ==
    { [agency |-> AgencyRows, routes |-> LoadRouteRows, calendar |-> CalendarRows,
       calendar_dates |-> CalendarDateRows, stops |-> StopRows, trips |-> LoadTripRows,
       stop_times |->
           OptionalRows(S, 1) \o
           << StopTimeRow("3582_6405", <<9, 50, 0>>, "8220DB001358", 2),
              StopTimeRow("3599_6532", <<9, 45, 0>>, "700000015365", 1) >>]
      : S \in { {}, {1}, {2}, {3}, {4}, DOMAIN LoadOptionalRows } }

\* the values of filter_stops: no filter, an empty list, one stop each, and
\* a stop number that no stop_times.txt row resolves to
LoadFilterStops ==
    { None, Some({}), Some({"1358"}), Some({"700000015365"}), Some({"9999"}) }

\* the stop numbers asked for: two of stops.txt, one that is not, and the
\* text of None
LoadStops == { "1358", "700000015365", "9999", "None" }

LoadNows == { datetime(Fri, 9, 40, 30) }

\* the trip ids asked for: one whose links all resolve, the three with a
\* missing link, and one that trips.txt does not list
LookupTripIds == { "3582_6405", "3590_1", "3591_1", "3592_1", "9999_1" }

\* a delay reported at a stop_id that stops.txt does not list
UnknownStopLate1 == StopTimeUpdate(STOP_SCHEDULED, "8220DB009999", 1, 0, 1500)

\* The entities of the feeds: an added trip (its trip_id is not in
\* trips.txt) on route r68 and one on a route that routes.txt does not
\* list, delays of trip 3582_6405, its cancellation, and delays of the
\* trip that calls at the other stop only.
LoadEntities ==
    { [trip_id |-> "9999_1", route_id |-> "r68", schedule_relationship |-> TRIP_ADDED,
       stop_time_update |-> << Absolute3 >>],
      [trip_id |-> "9999_2", route_id |-> "r404", schedule_relationship |-> TRIP_ADDED,
       stop_time_update |-> << Absolute3 >>],
      [trip_id |-> "3582_6405", route_id |-> "r68", schedule_relationship |-> TRIP_SCHEDULED,
       stop_time_update |-> << Late1 >>],
      [trip_id |-> "3582_6405", route_id |-> "r68", schedule_relationship |-> TRIP_SCHEDULED,
       stop_time_update |-> << UnknownStopLate1 >>],
      [trip_id |-> "3582_6405", route_id |-> "r68", schedule_relationship |-> TRIP_CANCELLED,
       stop_time_update |-> << UnknownStopLate1 >>],
      [trip_id |-> "3599_6532", route_id |-> "r27", schedule_relationship |-> TRIP_SCHEDULED,
       stop_time_update |-> << Late1 >>] }

LoadFeeds == { [timestamp |-> FeedTimestamp, entity |-> << e >>] : e \in LoadEntities }

\* GTFS.__init__ with rebuild_cache and filter_stops; beside it the same
\* static tables loaded without a filter.  The behaviours parse one feed
\* less than MaxPasses.
InitLoad ==
    /\ rate_limit_count = 0
    /\ threads = None
    /\ static \in LoadStaticInputs
    /\ Packable(static)
    /\ filter_stops \in LoadFilterStops
    /\ filter_trips = FilterTripsOf(_read_stops(<< >>, static.stops), filter_stops,
                                    static.stop_times)
    /\ data = load_static(static, filter_stops)
    /\ passes = MaxPasses - 1
    /\ last_call = Call("__init__", "", 0, 0, "", 0)
    /\ result = Result(FALSE, << >>, None)
    /\ cache_file = Some(data)
    /\ store2 = None
    /\ redis = None
    /\ clock = 0
    /\ reference = Some(Unfiltered(load_static(static, None), FALSE, << >>))

\* one call of GTFS.is_valid_stop_number
IsValidStopNumber(stop_number) ==
    /\ result' = Returns(is_valid_stop_number(data, stop_number))
    /\ data' = Store_has_data(data, "stop_numbers")
    /\ last_call' = Call("is_valid_stop_number", stop_number, 0, 0, "", 0)
    /\ reference' =
          IF IsNone(reference) THEN None
          ELSE Some(Unfiltered(Store_has_data(Val(reference).data, "stop_numbers"),
                               FALSE, << >>))
    /\ UNCHANGED <<rate_limit_count, threads, static, filter_stops, filter_trips, passes, cache_file, store2,
                   redis, clock>>

\* one call of GTFS.get_trip_info
GetTripInfo(trip_id) ==
    /\ result' = IF get_trip_info_raises(data, trip_id) THEN Raises
                 ELSE Returns(get_trip_info(data, trip_id))
    /\ last_call' = Call("get_trip_info", "", 0, 0, trip_id, 0)
    /\ reference' =
          IF IsNone(reference) THEN None
          ELSE Some(Unfiltered(Val(reference).data,
                               get_trip_info_raises(Val(reference).data, trip_id), << >>))
    /\ UNCHANGED <<rate_limit_count, threads, static, filter_stops, filter_trips, data, passes, cache_file,
                   store2, redis, clock>>

NextLoad ==
    \/ \E feed \in LoadFeeds : ParseLiveData(feed)
    \/ \E stop_number \in LoadStops, now \in LoadNows :
           GetScheduledArrivals(stop_number, now, timedelta(0, 60, 0))
    \/ \E stop_number \in LoadStops : IsValidStopNumber(stop_number)
    \/ \E trip_id \in LookupTripIds : GetTripInfo(trip_id)

SpecLoad == InitLoad /\ [][NextLoad]_vars

-----------------------------------------------------------------------------
(* The set operations of a Store of its own (src/test.py, testSet): add,   *)
(* remove, has and cardinality on one namespace of a new in-process store. *)

\* the values added and removed are 1 .. MaxValue
MaxValue == 4

TestValues == 1 .. MaxValue

\* Store() without a snapshot on disk: Store.data is an empty defaultdict.
\* reference is the set of the values added and not since removed.
InitSet ==
    /\ rate_limit_count = 0
    /\ threads = None
    /\ static = None
    /\ filter_stops = None
    /\ filter_trips = None
    /\ data = << >>
    /\ passes = 0
    /\ last_call = Call("__init__", "", 0, 0, "", 0)
    /\ result = Result(FALSE, << >>, None)
    /\ cache_file = None
    /\ store2 = None
    /\ redis = None
    /\ clock = 0
    /\ reference = {}

\* one call of Store.add
StoreAdd(value) ==
    /\ data' = Store_add(data, "testnamespace", value)
    /\ result' = Returns(None)
    /\ last_call' = CallArgs("Store.add", << value >>)
    /\ reference' = reference \cup {value}
    /\ UNCHANGED <<rate_limit_count, threads, static, filter_stops, filter_trips, passes, cache_file, store2,
                   redis, clock>>

\* one call of Store.remove
StoreRemove(value) ==
    /\ IF Store_remove_raises(data, "testnamespace", value)
       THEN /\ result' = Raises
            /\ UNCHANGED data
       ELSE /\ result' = Returns(None)
            /\ data' = Store_remove(data, "testnamespace", value)
    /\ last_call' = CallArgs("Store.remove", << value >>)
    /\ reference' = reference \ {value}
    /\ UNCHANGED <<rate_limit_count, threads, static, filter_stops, filter_trips, passes, cache_file, store2,
                   redis, clock>>

\* one call of Store.has
StoreHas(value) ==
    /\ result' = Returns(Store_has(data, "testnamespace", value))
    /\ data' = Store_has_data(data, "testnamespace")
    /\ last_call' = CallArgs("Store.has", << value >>)
    /\ UNCHANGED <<rate_limit_count, threads, static, filter_stops, filter_trips, passes, cache_file, store2,
                   redis, clock, reference>>

\* one call of Store.cardinality
StoreCardinality ==
    /\ result' = Returns(Store_cardinality(data, "testnamespace"))
    /\ data' = Store_has_data(data, "testnamespace")
    /\ last_call' = CallArgs("Store.cardinality", << >>)
    /\ UNCHANGED <<rate_limit_count, threads, static, filter_stops, filter_trips, passes, cache_file, store2,
                   redis, clock, reference>>

NextSet ==
    \/ \E value \in TestValues : StoreAdd(value)
    \/ \E value \in TestValues : StoreRemove(value)
    \/ \E value \in TestValues : StoreHas(value)
    \/ StoreCardinality

SpecSet == InitSet /\ [][NextSet]_vars

-----------------------------------------------------------------------------
(* The hash operations of a Store of its own (src/test.py, testHash): set, *)
(* get and delete on one namespace of a new in-process store.  Values are  *)
(* written as Python literals.                                             *)

TestKeys == { "val1", "val2", "val3" }

\* the values set: 1, and the falsy 0 and []
TestLiterals == { "1", "0", "[]" }

\* the defaults of get: None and a value
TestDefaults == { None, Some("d") }

\* reference maps each key to the value last set and not since deleted
InitHash ==
    /\ rate_limit_count = 0
    /\ threads = None
    /\ static = None
    /\ filter_stops = None
    /\ filter_trips = None
    /\ data = << >>
    /\ passes = 0
    /\ last_call = Call("__init__", "", 0, 0, "", 0)
    /\ result = Result(FALSE, << >>, None)
    /\ cache_file = None
    /\ store2 = None
    /\ redis = None
    /\ clock = 0
    /\ reference = << >>

\* one call of Store.set
StoreSet(key, value) ==
    /\ IF Store_set_raises(data, "testnamespace")
       THEN /\ result' = Raises
            /\ UNCHANGED data
       ELSE /\ result' = Returns(None)
            /\ data' = Store_set(data, "testnamespace", key, value)
    /\ last_call' = CallArgs("Store.set", << key, value >>)
    /\ reference' = WithKey(reference, key, value)
    /\ UNCHANGED <<rate_limit_count, threads, static, filter_stops, filter_trips, passes, cache_file, store2,
                   redis, clock>>

\* one call of Store.get
StoreGet(key, default) ==
    /\ result' = IF Store_get_raises(data, "testnamespace") THEN Raises
                 ELSE Returns(Store_get_value(data, "testnamespace", key, default))
    /\ last_call' = CallArgs("Store.get", << key, default >>)
    /\ UNCHANGED <<rate_limit_count, threads, static, filter_stops, filter_trips, data, passes, cache_file,
                   store2, redis, clock, reference>>

\* one call of Store.delete
StoreDelete(key) ==
    /\ data' = Store_delete(data, "testnamespace", key)
    /\ result' = Returns(None)
    /\ last_call' = CallArgs("Store.delete", << key >>)
    /\ reference' = [k \in DOMAIN reference \ {key} |-> reference[k]]
    /\ UNCHANGED <<rate_limit_count, threads, static, filter_stops, filter_trips, passes, cache_file, store2,
                   redis, clock>>

NextHash ==
    \/ \E key \in TestKeys, value \in TestLiterals : StoreSet(key, value)
    \/ \E key \in TestKeys, default \in TestDefaults : StoreGet(key, default)
    \/ \E key \in TestKeys : StoreDelete(key)

SpecHash == InitHash /\ [][NextHash]_vars

-----------------------------------------------------------------------------
(* Two stores and the snapshot (src/test.py, testCache): s1 is Store.data  *)
(* of the first store (the variable data), s2 of the second (store2); both *)
(* read and write the one CACHE_FILE.                                      *)

\* s1.set('testhash', 'val2', '2')
CacheSet ==
    /\ IF Store_set_raises(data, "testhash")
       THEN /\ result' = Raises
            /\ UNCHANGED data
       ELSE /\ result' = Returns(None)
            /\ data' = Store_set(data, "testhash", "val2", "2")
    /\ last_call' = CallArgs("s1.set", << "testhash", "val2", "2" >>)
    /\ UNCHANGED <<rate_limit_count, threads, static, filter_stops, filter_trips, passes, cache_file, store2,
                   redis, clock, reference>>

\* s1.add('testset', '2')
CacheAdd ==
    /\ data' = Store_add(data, "testset", "2")
    /\ result' = Returns(None)
    /\ last_call' = CallArgs("s1.add", << "testset", "2" >>)
    /\ UNCHANGED <<rate_limit_count, threads, static, filter_stops, filter_trips, passes, cache_file, store2,
                   redis, clock, reference>>

\* s1.write_cache(); reference keeps what s1 held when it was written
WriteCache ==
    /\ cache_file' = Store_write_cache(data)
    /\ reference' = Some(data)
    /\ result' = Returns(None)
    /\ last_call' = CallArgs("s1.write_cache", << >>)
    /\ UNCHANGED <<rate_limit_count, threads, static, filter_stops, filter_trips, data, passes, store2, redis,
                   clock>>

\* s1.clear_cache(): Store.data is emptied and the file removed
ClearCache ==
    /\ data' = << >>
    /\ cache_file' = None
    /\ result' = Returns(None)
    /\ last_call' = CallArgs("s1.clear_cache", << >>)
    /\ UNCHANGED <<rate_limit_count, threads, static, filter_stops, filter_trips, passes, store2, redis, clock,
                   reference>>

\* s2 = store.Store(): an empty defaultdict, then reload_cache()
NewStore2 ==
    /\ store2' = Some(Store_reload_cache(<< >>, cache_file))
    /\ result' = Returns(None)
    /\ last_call' = CallArgs("s2.__init__", << >>)
    /\ UNCHANGED <<rate_limit_count, threads, static, filter_stops, filter_trips, data, passes, cache_file,
                   redis, clock, reference>>

\* s2.reload_cache()
ReloadCache2 ==
    /\ ~IsNone(store2)
    /\ store2' = Some(Store_reload_cache(Val(store2), cache_file))
    /\ result' = Returns(None)
    /\ last_call' = CallArgs("s2.reload_cache", << >>)
    /\ UNCHANGED <<rate_limit_count, threads, static, filter_stops, filter_trips, data, passes, cache_file,
                   redis, clock, reference>>

\* s2.has('testset', '2')
Has2 ==
    /\ ~IsNone(store2)
    /\ result' = Returns(Store_has(Val(store2), "testset", "2"))
    /\ store2' = Some(Store_has_data(Val(store2), "testset"))
    /\ last_call' = CallArgs("s2.has", << "testset", "2" >>)
    /\ UNCHANGED <<rate_limit_count, threads, static, filter_stops, filter_trips, data, passes, cache_file,
                   redis, clock, reference>>

\* s2.get('testhash', 'val2')
Get2 ==
    /\ ~IsNone(store2)
    /\ result' = IF Store_get_raises(Val(store2), "testhash") THEN Raises
                 ELSE Returns(Store_get_value(Val(store2), "testhash", "val2", None))
    /\ last_call' = CallArgs("s2.get", << "testhash", "val2" >>)
    /\ UNCHANGED <<rate_limit_count, threads, static, filter_stops, filter_trips, data, passes, cache_file,
                   store2, redis, clock, reference>>

\* s1 = store.Store() with no snapshot on disk
InitCache ==
    /\ rate_limit_count = 0
    /\ threads = None
    /\ static = None
    /\ filter_stops = None
    /\ filter_trips = None
    /\ data = << >>
    /\ passes = 0
    /\ last_call = Call("__init__", "", 0, 0, "", 0)
    /\ result = Result(FALSE, << >>, None)
    /\ cache_file = None
    /\ store2 = None
    /\ redis = None
    /\ clock = 0
    /\ reference = None

NextCache ==
    \/ CacheSet
    \/ CacheAdd
    \/ WriteCache
    \/ ClearCache
    \/ NewStore2
    \/ ReloadCache2
    \/ Has2
    \/ Get2

SpecCache == InitCache /\ [][NextCache]_vars

-----------------------------------------------------------------------------
(* The store with the external backend: redis holds the hashes of the      *)
(* backend, data the hot cache, clock is time.time(), passes counts the    *)
(* steps of the clock, and reference keeps the hot cache as it was before  *)
(* the last get.                                                           *)

\* how many times the clock advances
MaxTicks == 3

\* the steps of the clock: a second, and a second less than the expiry
TickSteps == { 1, Expiry - 1 }

RedisNamespaces == { "route", "testhash", "trip" }

RedisKeys == { "r1" }

RedisValues == { "a", "b" }

\* time passes between two calls
Tick(step) ==
    /\ passes < MaxTicks
    /\ passes' = passes + 1
    /\ clock' = clock + step
    /\ last_call' = CallArgs("time.time", << step >>)
    /\ UNCHANGED <<rate_limit_count, threads, static, filter_stops, filter_trips, data, result, cache_file,
                   store2, redis, reference>>

\* store.set(ns, key, value): written to the backend only
RedisSet(ns, key, value) ==
    /\ redis' = Some(Redis_hset(Val(redis), ns, key, value))
    /\ result' = Returns(None)
    /\ last_call' = CallArgs("store.set", << ns, key, value >>)
    /\ UNCHANGED <<rate_limit_count, threads, static, filter_stops, filter_trips, data, passes, cache_file,
                   store2, clock, reference>>

\* store.get(ns, key), default None
RedisGet(ns, key) ==
    LET got == Store_get_redis(data, Val(redis), namespace_config, ns, key, None, clock)
    IN  /\ data' = got.data
        /\ result' = Returns(got.value)
        /\ reference' = Some(data)
        /\ last_call' = CallArgs("store.get", << ns, key >>)
        /\ UNCHANGED <<rate_limit_count, threads, static, filter_stops, filter_trips, passes, cache_file,
                       store2, redis, clock>>

\* store.Store(redis_url, namespace_config) on an empty backend
InitRedis ==
    /\ rate_limit_count = 0
    /\ threads = None
    /\ static = None
    /\ filter_stops = None
    /\ filter_trips = None
    /\ data = << >>
    /\ passes = 0
    /\ last_call = Call("__init__", "", 0, 0, "", 0)
    /\ result = Result(FALSE, << >>, None)
    /\ cache_file = None
    /\ store2 = None
    /\ redis = Some(<< >>)
    /\ clock = 0
    /\ reference = None

NextRedis ==
    \/ \E step \in TickSteps : Tick(step)
    \/ \E ns \in RedisNamespaces, key \in RedisKeys, value \in RedisValues :
          RedisSet(ns, key, value)
    \/ \E ns \in RedisNamespaces, key \in RedisKeys : RedisGet(ns, key)

SpecRedis == InitRedis /\ [][NextRedis]_vars

-----------------------------------------------------------------------------
(* Packing and unpacking on their own: a record is packed, and the buffer  *)
(* that came back is unpacked.  reference keeps the record that was packed.*)

\* n times the code point c
Repeat(c, n) == [i \in 1 .. n |-> c]

\* identifiers: empty, "A", "12345", twelve "A", six pound signs (12 bytes),
\* "A" and six pound signs (13 bytes), thirteen "A", and "A", NUL, "B"
PackIds ==
    { << >>, << 65 >>, << 49, 50, 51, 52, 53 >>, Repeat(65, 12), Repeat(163, 6),
      << 65 >> \o Repeat(163, 6), Repeat(65, 13), << 65, 0, 66 >> }

\* service identifiers: empty, "1", "67AB", two pound signs (4 bytes), "67ABC"
PackServiceIds ==
    { << >>, << 49 >>, << 54, 55, 65, 66 >>, Repeat(163, 2), << 54, 55, 65, 66, 67 >> }

PackHours == { 0, 12, 23, 24, 25, 127, 128 }

PackMinutes == { 0, 59 }

PackStopSequences == { -128, 1, 127, 200 }

PackStopData(trip_id, arrival_hour, arrival_min, arrival_sec, stop_sequence) ==
    /\ result' = IF _pack_stop_data_raises(trip_id, arrival_hour, arrival_min,
                                           arrival_sec, stop_sequence)
                 THEN Raises
                 ELSE Returns(_pack_stop_data_bytes(trip_id, arrival_hour, arrival_min,
                                                    arrival_sec, stop_sequence))
    /\ reference' = Some(<< trip_id, arrival_hour, arrival_min, arrival_sec,
                            stop_sequence >>)
    /\ last_call' = CallArgs("_pack_stop_data", << >>)
    /\ UNCHANGED <<rate_limit_count, threads, static, filter_stops, filter_trips, data, passes, cache_file,
                   store2, redis, clock>>

UnpackStopData ==
    /\ last_call.op = "_pack_stop_data"
    /\ ~result.raised
    /\ result' = IF _unpack_stop_data_raises(Val(result.value)) THEN Raises
                 ELSE Returns(_unpack_stop_data(Val(result.value)))
    /\ last_call' = CallArgs("_unpack_stop_data", << >>)
    /\ UNCHANGED <<rate_limit_count, threads, static, filter_stops, filter_trips, data, passes, cache_file,
                   store2, redis, clock, reference>>

PackTrip(route_id, service_id) ==
    /\ result' = Returns(_pack_trip_bytes(route_id, service_id))
    /\ reference' = Some(<< route_id, service_id >>)
    /\ last_call' = CallArgs("_pack_trip", << >>)
    /\ UNCHANGED <<rate_limit_count, threads, static, filter_stops, filter_trips, data, passes, cache_file,
                   store2, redis, clock>>

UnpackTrip ==
    /\ last_call.op = "_pack_trip"
    /\ result' = IF _unpack_trip_raises(Val(result.value)) THEN Raises
                 ELSE Returns(_unpack_trip(Val(result.value)))
    /\ last_call' = CallArgs("_unpack_trip", << >>)
    /\ UNCHANGED <<rate_limit_count, threads, static, filter_stops, filter_trips, data, passes, cache_file,
                   store2, redis, clock, reference>>

InitPack ==
    /\ rate_limit_count = 0
    /\ threads = None
    /\ static = None
    /\ filter_stops = None
    /\ filter_trips = None
    /\ data = << >>
    /\ passes = 0
    /\ last_call = Call("__init__", "", 0, 0, "", 0)
    /\ result = Result(FALSE, << >>, None)
    /\ cache_file = None
    /\ store2 = None
    /\ redis = None
    /\ clock = 0
    /\ reference = None

NextPack ==
    \/ \E trip_id \in PackIds, arrival_hour \in PackHours, arrival_min \in PackMinutes,
          arrival_sec \in PackMinutes, stop_sequence \in PackStopSequences :
          PackStopData(trip_id, arrival_hour, arrival_min, arrival_sec, stop_sequence)
    \/ UnpackStopData
    \/ \E route_id \in PackIds, service_id \in PackServiceIds :
          PackTrip(route_id, service_id)
    \/ UnpackTrip

SpecPack == InitPack /\ [][NextPack]_vars

-----------------------------------------------------------------------------
(* The server (src/server.py): the thread of start_scheduled_jobs polls     *)
(* the live feed, sleeps and, once an hour, looks for new static data; a    *)
(* worker thread of the web server answers one query with                   *)
(* get_scheduled_arrivals, one call of the store at a time.  threads holds  *)
(* the position and the local variables of both threads; clock is the time  *)
(* in seconds since the thread of start_scheduled_jobs started; passes      *)
(* counts the polls; reference keeps Store.data and the counter as they     *)
(* were before the last poll.                                               *)

\* how many times the live feed is polled
MaxPolls == 3

\* settings.POLLING_PERIOD, the default of --polling-period
POLLING_PERIOD == 60

\* the values of --polling-period: the default, and half an hour
PollingPeriods == { POLLING_PERIOD, 30 * POLLING_PERIOD }

RECURSIVE Pow(_, _)
Pow(b, n) == IF n = 0 THEN 1 ELSE b * Pow(b, n - 1)

\* int(polling_period + polling_period * 1.5**rate_limit_count)
sleep_seconds(polling_period, count) ==
    polling_period + (polling_period * Pow(3, count)) \div Pow(2, count)

\* The static tables on disk: those the server started with, and a new
\* timetable in which trip 3582_6405 runs on route r27 with service wkd.
ServerStatics ==
    LET first == CHOOSE st \in StaticInputs :
                    /\ st.stop_times[1].arrival_hour = 9
                    /\ st.stop_times[2].arrival_hour = 9
                    /\ st.stop_times[2].arrival_min = 50
    IN  << first,
           [first EXCEPT !.trips[2] =
               [route_id |-> "r27", service_id |-> "wkd", trip_id |-> "3582_6405"]] >>

\* The feeds polled: a delay of trip 3582_6405, an added trip, and the
\* cancellation of trip 3582_6405.
ServerFeeds ==
    { [timestamp |-> FeedTimestamp,
       entity |-> << [trip_id |-> t[1], route_id |-> "r68",
                      schedule_relationship |-> t[2],
                      stop_time_update |-> << t[3] >>] >>] :
        t \in { <<"3582_6405", TRIP_SCHEDULED, Late1>>,
                <<"9999_1", TRIP_ADDED, Absolute3>>,
                <<"3582_6405", TRIP_CANCELLED, Late1>> } }

\* What urlopen and f.read() give: a body that is a FeedMessage ("ok"), a
\* body that FeedMessage.ParseFromString rejects ("corrupt"), an HTTP error
\* status ("http"), or no connection ("urlerror").
Response(kind, code, feed) == [kind |-> kind, code |-> code, feed |-> feed]

NoFeed == [timestamp |-> 0, entity |-> << >>]

Responses ==
    { Response("ok", 200, feed) : feed \in ServerFeeds }
    \cup { Response("corrupt", 200, NoFeed), Response("urlerror", 0, NoFeed) }
    \cup { Response("http", code, NoFeed) : code \in { 429, 500, 401 } }

\* GTFS.refresh_live_data as it would be if it emptied the live namespaces
\* before the request
refresh_live_data_clears(d, count, fs, ft, response) ==
    LET cleared == [ns \in DOMAIN d \ { "live_delays", "live_additions",
                                        "live_cancelations" } |-> d[ns]]
        parsed == _parse_live_data(cleared, fs, ft, response.feed)
    IN  IF response.kind = "urlerror" \/ response.kind = "corrupt"
        THEN [raised |-> TRUE, data |-> cleared, rate_limit_count |-> count]
        ELSE IF response.kind = "http"
        THEN [raised |-> FALSE, data |-> cleared,
              rate_limit_count |-> IF response.code = 429 THEN count + 1 ELSE count]
        ELSE IF parsed.raised
        THEN [raised |-> TRUE, data |-> parsed.data, rate_limit_count |-> count]
        ELSE [raised |-> FALSE, data |-> parsed.data, rate_limit_count |-> 0]

\* GTFS.refresh_live_data(): whether it raised, Store.data and
\* self.rate_limit_count afterwards; when it did not raise it returns
\* self.rate_limit_count.  Only urllib.error.HTTPError is caught: URLError,
\* the DecodeError of ParseFromString (raised before anything is stored)
\* and what _parse_live_data raises leave through the caller, and the
\* counter is set to 0 only after _parse_live_data has returned.
refresh_live_data(d, count, fs, ft, response) ==
    LET parsed == _parse_live_data(d, fs, ft, response.feed)
    IN  IF response.kind = "urlerror" \/ response.kind = "corrupt"
        THEN [raised |-> TRUE, data |-> d, rate_limit_count |-> count]
        ELSE IF response.kind = "http"
        THEN [raised |-> FALSE, data |-> d,
              rate_limit_count |-> IF response.code = 429 THEN count + 1 ELSE count]
        ELSE IF parsed.raised
        THEN [raised |-> TRUE, data |-> parsed.data, rate_limit_count |-> count]
        ELSE [raised |-> FALSE, data |-> parsed.data, rate_limit_count |-> 0]

\* the query of the worker thread: stop 1358 on the Friday at 09:40:30,
\* max_wait an hour
QueryNow == datetime(Fri, 9, 40, 30)

\* The local variables of the thread of start_scheduled_jobs: where it is
\* ("poll", "sleep", or "stopped" once an exception has left refresh()),
\* the argument of time.sleep, and next_static_download_check.
RefreshThread(pc, polling_period, sleep, next_check) ==
    [pc |-> pc, polling_period |-> polling_period, sleep |-> sleep,
     next_static_download_check |-> next_check]

\* The local variables of the worker thread in get_scheduled_arrivals: the
\* hours still to try, the packed stop times still to scan and the one at
\* hand, packed_trip, route_info and calendar_info of get_trip_info, the
\* added trips still to append; loads is the set of static loads (indices
\* of ServerStatics) that the reads of static namespaces so far came from.
QueryThread(pc, hours, entries, loads) ==
    [pc |-> pc, hours |-> hours, entries |-> entries, packed_trip |-> None,
     route_info |-> None, calendar_info |-> None, added |-> << >>, loads |-> loads]

\* the three parts of threads: the two threads, and which static load
\* Store.data (memory) and the cache file (file) hold
Threads(refresh, query, memory, file) ==
    [refresh |-> refresh, query |-> query, memory |-> memory, file |-> file]

\* the worker thread after the packed stop time at hand: the next one of
\* the bucket, or the next hour
NextEntry(q) ==
    IF Tail(q.entries) = << >>
    THEN [q EXCEPT !.pc = "hour", !.hours = Tail(q.hours), !.entries = << >>]
    ELSE [q EXCEPT !.pc = "trip", !.entries = Tail(q.entries)]

\* One call of the store by get_scheduled_arrivals("1358", QueryNow, an
\* hour) in the worker thread q, on Store.data d that holds static load
\* memory: the thread and Store.data afterwards.  Each position reads
\* self.store.data anew (store.py: Store.get, Store.has).
\*   "hour"      stop_times = store.get('stop_times', key), and after the
\*               last hour store.get('live_additions', stop_number, [])
\*   "bucket"    for ... in store.get('stop_times', key): a second read
\*   "trip", "route", "agency", "service"   the reads of get_trip_info
\*   "exception" store.get('exception', key)
\*   "live"      _get_live_delay and store.has('live_cancelations', trip_id)
\*   "add_route", "add_agency"   the reads for an added trip
\*   "done", "raised"   the call returned, or raised TypeError
get_scheduled_arrivals_step(q, d, memory) ==
    LET key == << "1358", Head(q.hours) >>
        read == [q EXCEPT !.loads = @ \cup { memory }]
        p == Head(q.entries)
        trip_info == [service_id |-> Val(q.packed_trip).service_id,
                      start_date |-> Val(q.calendar_info).start_date,
                      end_date |-> Val(q.calendar_info).end_date,
                      days |-> Val(q.calendar_info).days]
        added_trips == Store_get_default(d, "live_additions", "1358", << >>)
    IN  CASE q.pc = "hour" /\ q.hours # << >> ->
                [data |-> d,
                 query |-> IF IsNone(Store_get(d, "stop_times", key))
                           THEN [read EXCEPT !.hours = Tail(q.hours)]
                           ELSE [read EXCEPT !.pc = "bucket"]]
          [] q.pc = "hour" /\ q.hours = << >> ->
                [data |-> d,
                 query |-> [q EXCEPT !.added = added_trips,
                                     !.pc = IF added_trips = << >> THEN "done"
                                            ELSE "add_route"]]
          [] q.pc = "bucket" ->
                [data |-> d,
                 query |-> IF IsNone(Store_get(d, "stop_times", key))
                           THEN [read EXCEPT !.pc = "raised"]
                           ELSE [read EXCEPT !.pc = "trip",
                                     !.entries = Val(Store_get(d, "stop_times", key))]]
          [] q.pc = "trip" ->
                [data |-> d,
                 query |-> IF IsNone(Store_get(d, "trip", p.trip_id))
                           THEN NextEntry(read)
                           ELSE [read EXCEPT !.pc = "route",
                                     !.packed_trip = Store_get(d, "trip", p.trip_id)]]
          [] q.pc = "route" ->
                [data |-> d,
                 query |-> IF IsNone(Store_get(d, "route", Val(q.packed_trip).route_id))
                           THEN NextEntry(read)
                           ELSE [read EXCEPT !.pc = "agency",
                                     !.route_info =
                                         Store_get(d, "route", Val(q.packed_trip).route_id)]]
          [] q.pc = "agency" ->
                [data |-> d, query |-> [read EXCEPT !.pc = "service"]]
          [] q.pc = "service" ->
                [data |-> d,
                 query |-> IF IsNone(Store_get(d, "service", Val(q.packed_trip).service_id))
                           THEN [read EXCEPT !.pc = "raised"]
                           ELSE [read EXCEPT !.pc = "exception",
                                     !.calendar_info =
                                         Store_get(d, "service",
                                                   Val(q.packed_trip).service_id)]]
          [] q.pc = "exception" ->
                [data |-> d,
                 query |-> IF ServiceRuns(d, trip_info, DateOf(ArrivalDatetime(QueryNow, p)))
                           THEN [read EXCEPT !.pc = "live"]
                           ELSE NextEntry(read)]
          [] q.pc = "live" ->
                [data |-> Store_has_data(d, "live_cancelations"),
                 query |-> NextEntry(q)]
          [] q.pc = "add_route" ->
                [data |-> d,
                 query |-> IF IsNone(Store_get(d, "route", Head(q.added).route_id))
                           THEN [read EXCEPT !.pc = "raised"]
                           ELSE [read EXCEPT !.pc = "add_agency"]]
          [] q.pc = "add_agency" ->
                [data |-> d,
                 query |-> [read EXCEPT !.added = Tail(q.added),
                                        !.pc = IF Tail(q.added) = << >> THEN "done"
                                               ELSE "add_route"]]

\* GTFS.__init__ from the cache file, then start_scheduled_jobs; no query
\* is running
InitServer ==
    /\ static = ServerStatics[1]
    /\ filter_stops = None
    /\ filter_trips = None
    /\ data = load_static(static, filter_stops)
    /\ passes = 0
    /\ last_call = Call("__init__", "", 0, 0, "", 0)
    /\ result = Result(FALSE, << >>, None)
    /\ cache_file = Some(data)
    /\ store2 = None
    /\ redis = None
    /\ clock = 0
    /\ rate_limit_count = 0
    /\ \E polling_period \in PollingPeriods :
          threads = Threads(RefreshThread("poll", polling_period, 0, Hour),
                            QueryThread("idle", << >>, << >>, {}), 1, 1)
    /\ reference = None

\* rate_limit_count = gtfs.refresh_live_data(), and the argument of the
\* time.sleep that follows; an exception ends the thread
Poll(response) ==
    /\ threads.refresh.pc = "poll"
    /\ passes < MaxPolls
    /\ LET out == refresh_live_data(data, rate_limit_count, filter_stops, filter_trips,
                                    response)
       IN  /\ data' = out.data
           /\ rate_limit_count' = out.rate_limit_count
           /\ result' = IF out.raised THEN Raises ELSE Returns(out.rate_limit_count)
           /\ threads' = [threads EXCEPT
                  !.refresh.pc = IF out.raised THEN "stopped" ELSE "sleep",
                  !.refresh.sleep =
                      IF out.raised THEN 0
                      ELSE sleep_seconds(threads.refresh.polling_period,
                                         out.rate_limit_count)]
    /\ passes' = passes + 1
    /\ last_call' = CallArgs("refresh_live_data", << response >>)
    /\ reference' = Some([data |-> data, rate_limit_count |-> rate_limit_count])
    /\ UNCHANGED <<static, filter_stops, filter_trips, cache_file, store2, redis, clock>>

\* what check_for_new_static_data() may return: whether the static archive
\* upstream is newer than the one on disk
check_for_new_static_data == BOOLEAN

\* time.sleep returns; when the hour is over check_for_new_static_data()
\* is called, and when it says new the subprocess is run and waited for and
\* the store reloads the cache file.  The subprocess is
\* "python gtfs.py --download --rebuild-cache": the parser of gtfs.py has
\* no option of that name (it has --rebuild_cache), so the subprocess ends
\* with a usage error and the cache file stays as it is.
Wake(new) ==
    /\ threads.refresh.pc = "sleep"
    /\ clock' = clock + threads.refresh.sleep
    /\ LET check == clock' > threads.refresh.next_static_download_check
           reload == check /\ new
       IN  /\ data' = IF reload THEN Store_reload_cache(data, cache_file) ELSE data
           /\ static' = IF reload THEN ServerStatics[threads.file] ELSE static
           /\ threads' = [threads EXCEPT
                  !.refresh.pc = "poll",
                  !.refresh.next_static_download_check =
                      IF check THEN clock' + Hour ELSE @,
                  !.memory = IF reload THEN threads.file ELSE @]
    /\ last_call' =
          CallArgs(IF clock' > threads.refresh.next_static_download_check /\ new
                   THEN "store.reload_cache" ELSE "time.sleep",
                   << threads.refresh.sleep >>)
    /\ UNCHANGED <<rate_limit_count, filter_stops, filter_trips, passes, result, cache_file,
                   store2, redis, reference>>

\* "python gtfs.py --download --rebuild_cache" run beside the server: the
\* new tables are loaded and the cache file is written
RebuildCache ==
    /\ threads.file = 1
    /\ cache_file' = Store_write_cache(load_static(ServerStatics[2], filter_stops))
    /\ threads' = [threads EXCEPT !.file = 2]
    /\ UNCHANGED <<rate_limit_count, static, filter_stops, filter_trips, data, passes,
                   last_call, result, store2, redis, clock, reference>>

\* a request arrives: the worker thread enters get_scheduled_arrivals
QueryStart ==
    /\ threads.query.pc = "idle"
    /\ threads' = [threads EXCEPT
           !.query = QueryThread("hour", try_hours(QueryNow, Hour), << >>, {})]
    /\ UNCHANGED <<rate_limit_count, static, filter_stops, filter_trips, data, passes,
                   last_call, result, cache_file, store2, redis, clock, reference>>

\* the worker thread makes its next call of the store
QueryStep ==
    /\ threads.query.pc \notin { "idle", "done", "raised" }
    /\ LET step == get_scheduled_arrivals_step(threads.query, data, threads.memory)
       IN  /\ threads' = [threads EXCEPT !.query = step.query]
           /\ data' = step.data
    /\ UNCHANGED <<rate_limit_count, static, filter_stops, filter_trips, passes,
                   last_call, result, cache_file, store2, redis, clock, reference>>

NextServer ==
    \/ \E response \in Responses : Poll(response)
    \/ \E new \in check_for_new_static_data : Wake(new)
    \/ RebuildCache
    \/ QueryStart
    \/ QueryStep

SpecServer == InitServer /\ [][NextServer]_vars

-----------------------------------------------------------------------------
(* The store with the external backend, read with a default: nothing is    *)
(* ever stored under key "r2", and get is called on it with and without a  *)
(* default while time passes.                                              *)

\* the defaults of the calls: None and two values
RedisDefaults == { None, Some("d1"), Some("d2") }

\* store.get(ns, key, default)
RedisGetDefault(ns, key, default) ==
    LET got == Store_get_redis(data, Val(redis), namespace_config, ns, key, default, clock)
    IN  /\ data' = got.data
        /\ result' = Returns(got.value)
        /\ reference' = Some(data)
        /\ last_call' = CallArgs("store.get", << ns, key, default >>)
        /\ UNCHANGED <<rate_limit_count, threads, static, filter_stops, filter_trips, passes,
                       cache_file, store2, redis, clock>>

NextMiss ==
    \/ \E step \in TickSteps : Tick(step)
    \/ \E ns \in { "route", "trip" } : RedisSet(ns, "r1", "a")
    \/ \E ns \in { "route", "trip" }, default \in RedisDefaults :
          RedisGetDefault(ns, "r2", default)

SpecMiss == InitRedis /\ [][NextMiss]_vars

-----------------------------------------------------------------------------
(* Store.get on entries that are not what it expects, on the namespace     *)
(* 'route' configured with cache and expiry.  In process (redis = None)    *)
(* Store.set stores the value as it is, not as a (timestamp, value) pair:  *)
(* it looks up config.get('is_cachable'), a key that no configuration      *)
(* has.  With the backend a field may hold bytes that are no pickle.       *)

\* bytes that pickle.loads rejects
Undecodable == "not a pickle"

\* pickle.loads(value) raises UnpicklingError
pickle_loads_raises(value) == value = Undecodable

\* a value that Store.set has stored in Store.data as it is
Raw(value) == [raw |-> value]

\* "t, cached_value = cached_item" raises: the item is not a pair (the
\* values stored are strings of one character: ValueError)
UnpackRaises(cached_item) == "t" \notin DOMAIN cached_item

\* Store.get(namespace, key, default) raises: the unpacking of the cached
\* item is outside the try, and nothing catches what pickle.loads raises
Store_get_corrupt_raises(d, r, config, ns, key, now) ==
    LET cached_item == Store_get(d, ns, key)
        is_cachable == IsCachable(config, ns)
        not_a_pair == /\ ~IsNone(cached_item)
                      /\ is_cachable
                      /\ UnpackRaises(Val(cached_item))
        from_cache == /\ ~IsNone(cached_item)
                      /\ is_cachable
                      /\ ~UnpackRaises(Val(cached_item))
                      /\ Fresh(ExpiryOf(config, ns), now, Val(cached_item).t)
                      /\ ~IsNone(Val(cached_item).value)
        fetched == Redis_hget(Val(r), ns, key)
    IN  \/ not_a_pair
        \/ /\ ~from_cache
           /\ ~IsNone(r)
           /\ ~IsNone(fetched)
           /\ pickle_loads_raises(Val(fetched))

\* store.Store(redis_url, namespace_config), in process or on an empty
\* backend
InitCorrupt ==
    /\ rate_limit_count = 0
    /\ threads = None
    /\ static = None
    /\ filter_stops = None
    /\ filter_trips = None
    /\ data = << >>
    /\ passes = 0
    /\ last_call = Call("__init__", "", 0, 0, "", 0)
    /\ result = Result(FALSE, << >>, None)
    /\ cache_file = None
    /\ store2 = None
    /\ redis \in { None, Some(<< >>) }
    /\ clock = 0
    /\ reference = None

\* store.set('route', key, value)
CorruptSet(key, value) ==
    /\ data' = IF IsNone(redis) THEN Store_set(data, "route", key, Raw(value)) ELSE data
    /\ redis' = IF IsNone(redis) THEN redis
                ELSE Some(Redis_hset(Val(redis), "route", key, value))
    /\ result' = Returns(None)
    /\ last_call' = CallArgs("store.set", << "route", key, value >>)
    /\ UNCHANGED <<rate_limit_count, threads, static, filter_stops, filter_trips, passes,
                   cache_file, store2, clock, reference>>

\* the field of the backend comes to hold bytes that are no pickle
CorruptBlob(key) ==
    /\ ~IsNone(redis)
    /\ redis' = Some(Redis_hset(Val(redis), "route", key, Undecodable))
    /\ last_call' = CallArgs("redis.hset", << "route", key >>)
    /\ UNCHANGED <<rate_limit_count, threads, static, filter_stops, filter_trips, data,
                   passes, result, cache_file, store2, clock, reference>>

\* store.get('route', key, default)
CorruptGet(key, default) ==
    LET raises == Store_get_corrupt_raises(data, redis, namespace_config, "route", key,
                                           clock)
        got == Store_get_redis(data, Val(redis), namespace_config, "route", key, default,
                               clock)
        expired == /\ ~IsNone(redis)
                   /\ ~IsNone(Store_get(data, "route", key))
                   /\ ~Fresh(Some(Expiry), clock, Val(Store_get(data, "route", key)).t)
    IN  /\ result' = IF raises THEN Raises
                     ELSE IF IsNone(redis) THEN Returns(default)
                     ELSE Returns(got.value)
        /\ data' = IF raises
                   THEN (IF expired THEN WithoutKey(data, "route", key) ELSE data)
                   ELSE IF IsNone(redis) THEN data
                   ELSE got.data
        /\ reference' = Some(data)
        /\ last_call' = CallArgs("store.get", << "route", key, default >>)
        /\ UNCHANGED <<rate_limit_count, threads, static, filter_stops, filter_trips, passes,
                       cache_file, store2, redis, clock>>

NextCorrupt ==
    \/ \E step \in TickSteps : Tick(step)
    \/ \E key \in RedisKeys, value \in RedisValues : CorruptSet(key, value)
    \/ \E key \in RedisKeys : CorruptBlob(key)
    \/ \E key \in RedisKeys, default \in { None, Some("d1") } : CorruptGet(key, default)

SpecCorrupt == InitCorrupt /\ [][NextCorrupt]_vars

-----------------------------------------------------------------------------
(* The construction of a GTFS object, one step of load_static at a time:   *)
(* threads holds where the constructor is ("check", "load", "done", or     *)
(* "raised" once an exception has left it) and its argument rebuild_cache, *)
(* passes the number of steps of load_static that have run.                *)

\* The tables on disk: a timetable with arrival hours 24 and 0; the same
\* with a stop_times row whose stop_sequence does not fit the packed field;
\* one with a stop_times row at a stop_id that stops.txt does not list; one
\* whose trips and routes name a route, a service and an agency that the
\* tables do not list.
ConstructStatics ==
    LET base == CHOOSE st \in StaticInputs :
                   /\ st.stop_times[1].arrival_hour = 24
                   /\ st.stop_times[2].arrival_hour = 0
    IN  { base,
          [base EXCEPT !.stop_times =
              << base.stop_times[1],
                 StopTimeRow("3582_6405", <<9, 55, 0>>, "8220DB001358", 200) >>
              \o Tail(base.stop_times)],
          [base EXCEPT !.stop_times =
              @ \o << StopTimeRow("3582_6405", <<9, 48, 0>>, "8220DB009999", 1) >>],
          [base EXCEPT !.trips = LoadTripRows, !.routes = LoadRouteRows] }

\* the values of filter_stops
ConstructFilterStops == { None, Some({"1358"}), Some({"700000015365"}) }

\* the last step of load_static
LastStage == 9

\* _read_stop_times raises struct.error: a row that the filter lets through
\* does not fit the packed format
_read_stop_times_raises(d, fs, rows) ==
    \E i \in DOMAIN rows :
        /\ ~StopFilteredOut(fs, Store_get(d, "stop", rows[i].stop_id))
        /\ _pack_stop_data_raises(rows[i].trip_id, rows[i].arrival_hour,
                                  rows[i].arrival_min, rows[i].arrival_sec,
                                  rows[i].stop_sequence)

\* load_static as it would be if the flag were set before the tables are
\* read
load_static_stage_flag_first(d, file, st, fs, ft, i) ==
    LET flagged == Store_set(d, "status", "initialized", TRUE)
        stage(stored, trips) ==
            [raised |-> FALSE, data |-> stored, filter_trips |-> trips,
             cache_file |-> file]
    IN  CASE i = 1 -> stage(_read_routes(flagged, st.routes), ft)
          [] i = 2 -> stage(_read_agencies(d, st.agency), ft)
          [] i = 3 -> stage(_read_calendar(d, st.calendar), ft)
          [] i = 4 -> stage(_read_exceptions(d, st.calendar_dates), ft)
          [] i = 5 -> stage(_read_stops(d, st.stops), ft)
          [] i = 6 -> IF _read_stop_times_raises(d, fs, st.stop_times)
                      THEN [stage(d, ft) EXCEPT !.raised = TRUE]
                      ELSE stage(_read_stop_times(d, fs, st.stop_times),
                                 FilterTripsOf(d, fs, st.stop_times))
          [] i = 7 -> stage(_read_trips(d, ft, st.trips), ft)
          [] i = 8 -> stage(d, ft)
          [] i = 9 -> [stage(d, ft) EXCEPT !.cache_file = Store_write_cache(d)]

\* Step i of load_static on Store.data d, the cache file and
\* self.filter_trips ft: the seven tables in the order of the code, then
\* the flag, then write_cache.  Whether the step raised, and the three
\* afterwards.
load_static_stage(d, file, st, fs, ft, i) ==
    LET stage(stored, trips) ==
            [raised |-> FALSE, data |-> stored, filter_trips |-> trips,
             cache_file |-> file]
    IN  CASE i = 1 -> stage(_read_routes(d, st.routes), ft)
          [] i = 2 -> stage(_read_agencies(d, st.agency), ft)
          [] i = 3 -> stage(_read_calendar(d, st.calendar), ft)
          [] i = 4 -> stage(_read_exceptions(d, st.calendar_dates), ft)
          [] i = 5 -> stage(_read_stops(d, st.stops), ft)
          [] i = 6 -> IF _read_stop_times_raises(d, fs, st.stop_times)
                      THEN [stage(d, ft) EXCEPT !.raised = TRUE]
                      ELSE stage(_read_stop_times(d, fs, st.stop_times),
                                 FilterTripsOf(d, fs, st.stop_times))
          [] i = 7 -> stage(_read_trips(d, ft, st.trips), ft)
          [] i = 8 -> stage(Store_set(d, "status", "initialized", TRUE), ft)
          [] i = 9 -> [stage(d, ft) EXCEPT !.cache_file = Store_write_cache(d)]

\* the constructor: where it is, and rebuild_cache
Constructor(pc, rebuild_cache) == [pc |-> pc, rebuild_cache |-> rebuild_cache]

\* GTFS.__init__ after store.Store(...): there is no cache file, or the
\* one that an earlier construction with the same tables and filter wrote,
\* which Store.__init__ has loaded
InitConstruct ==
    /\ rate_limit_count = 0
    /\ static \in ConstructStatics
    /\ filter_stops \in ConstructFilterStops
    /\ filter_trips = None
    /\ cache_file \in
          { None } \cup
          (IF _read_stop_times_raises(_read_stops(<< >>, static.stops), filter_stops,
                                      static.stop_times)
           THEN {} ELSE { Some(load_static(static, filter_stops)) })
    /\ data = Store_reload_cache(<< >>, cache_file)
    /\ passes = 0
    /\ last_call = Call("__init__", "", 0, 0, "", 0)
    /\ result = Result(FALSE, << >>, None)
    /\ store2 = None
    /\ redis = None
    /\ clock = 0
    /\ \E rebuild_cache \in BOOLEAN : threads = Constructor("check", rebuild_cache)
    /\ reference = None

\* "if rebuild_cache: self.store.clear_cache()", then the test of the flag
CheckInitialized ==
    /\ threads.pc = "check"
    /\ LET cleared == IF threads.rebuild_cache THEN << >> ELSE data
       IN  /\ data' = cleared
           /\ cache_file' = IF threads.rebuild_cache THEN None ELSE cache_file
           /\ threads' = [threads EXCEPT !.pc =
                  IF IsNone(Store_get(cleared, "status", "initialized")) THEN "load"
                  ELSE "done"]
    /\ last_call' = CallArgs("store.get", << "status", "initialized" >>)
    /\ UNCHANGED <<rate_limit_count, static, filter_stops, filter_trips, passes, result,
                   store2, redis, clock, reference>>

\* the next step of load_static; an exception leaves the constructor
LoadStage ==
    /\ threads.pc = "load"
    /\ LET out == load_static_stage(data, cache_file, static, filter_stops, filter_trips,
                                    passes + 1)
       IN  /\ data' = out.data
           /\ filter_trips' = out.filter_trips
           /\ cache_file' = out.cache_file
           /\ result' = IF out.raised THEN Raises ELSE Returns(None)
           /\ threads' = [threads EXCEPT !.pc =
                  IF out.raised THEN "raised"
                  ELSE IF passes + 1 = LastStage THEN "done" ELSE "load"]
    /\ passes' = passes + 1
    /\ last_call' = CallArgs("load_static", << passes + 1 >>)
    /\ UNCHANGED <<rate_limit_count, static, filter_stops, store2, redis, clock, reference>>

NextConstruct ==
    \/ CheckInitialized
    \/ LoadStage

SpecConstruct == InitConstruct /\ [][NextConstruct]_vars

-----------------------------------------------------------------------------
(* GTFS._parse_live_data in the refresh thread, one turn of its loops at a  *)
(* time, while a query thread runs GTFS._get_live_delay.  The store is the  *)
(* in-process one: Store.set puts the list trip_delays under its key with   *)
(* one dictionary assignment, Store.get reads it with one dictionary        *)
(* lookup.                                                                  *)

\* The feeds of the passes: an entity of trip 3582_6405 followed by an
\* entity of trip 3582_11643, which in the last feed is a cancellation.
IngestFeeds ==
    { [timestamp |-> FeedTimestamp,
       entity |-> << [trip_id |-> "3582_6405", route_id |-> "r68",
                      schedule_relationship |-> TRIP_SCHEDULED,
                      stop_time_update |-> t[1]],
                     [trip_id |-> "3582_11643", route_id |-> "r49",
                      schedule_relationship |-> t[2],
                      stop_time_update |-> << Late1 >>] >>] :
        t \in { << << Late1, Early3 >>, TRIP_SCHEDULED >>,
                << << Absolute3 >>, TRIP_SCHEDULED >>,
                << << Skipped1, Garbage1 >>, TRIP_SCHEDULED >>,
                << << Late1, Absolute3 >>, TRIP_CANCELLED >> } }

\* the trips and the stop_sequence the query thread asks about
IngestTripIds == { "3582_6405", "3582_11643" }

IngestStopSequences == { 2 }

\* the refresh thread inside _parse_live_data: the feed, the indices of the
\* entity and of the stop_time_update it is at, the local list trip_delays
IngestThread(pc, feed, i, j, trip_delays) ==
    [pc |-> pc, feed |-> feed, i |-> i, j |-> j, trip_delays |-> trip_delays]

\* the query thread inside _get_live_delay: its arguments and the local
\* list updates that store.get returned
DelayThread(pc, trip_id, stop_sequence, updates) ==
    [pc |-> pc, trip_id |-> trip_id, stop_sequence |-> stop_sequence,
     updates |-> updates]

\* _parse_live_data as it would be if it stored trip_delays after every
\* append
parse_step_publish_each(d, fs, ft, t) ==
    LET entity == t.feed.entity[t.i]
        acc == ParseStopTimeUpdate([raised |-> FALSE, data |-> d,
                                    trip_delays |-> t.trip_delays],
                                   fs, t.feed.timestamp, entity,
                                   entity.stop_time_update[t.j])
    IN  IF t.i > Len(t.feed.entity)
        THEN [raised |-> FALSE, data |-> d, thread |-> [t EXCEPT !.pc = "idle"]]
        ELSE IF TripFilteredOut(ft, entity.trip_id)
             \/ (t.j > Len(entity.stop_time_update) /\ t.trip_delays = << >>)
        THEN [raised |-> FALSE, data |-> d,
              thread |-> [t EXCEPT !.i = t.i + 1, !.j = 1, !.trip_delays = << >>]]
        ELSE IF t.j > Len(entity.stop_time_update)
        THEN [raised |-> FALSE,
              data |-> Store_set(d, "live_delays", entity.trip_id, t.trip_delays),
              thread |-> [t EXCEPT !.i = t.i + 1, !.j = 1, !.trip_delays = << >>]]
        ELSE IF acc.raised
        THEN [raised |-> TRUE, data |-> acc.data, thread |-> [t EXCEPT !.pc = "idle"]]
        ELSE [raised |-> FALSE,
              data |-> IF acc.trip_delays = << >> THEN acc.data
                       ELSE Store_set(acc.data, "live_delays", entity.trip_id,
                                      acc.trip_delays),
              thread |-> [t EXCEPT !.j = t.j + 1, !.trip_delays = acc.trip_delays]]

\* One turn of the loops of _parse_live_data for the refresh thread t: the
\* end of the pass after the last entity, the next entity when the trip
\* filter drops this one or when its trip_delays stayed empty, store.set of
\* trip_delays after the last stop_time_update, otherwise the turn for one
\* stop_time_update.  Gives whether it raised, Store.data and the thread.
parse_step(d, fs, ft, t) ==
    LET entity == t.feed.entity[t.i]
        acc == ParseStopTimeUpdate([raised |-> FALSE, data |-> d,
                                    trip_delays |-> t.trip_delays],
                                   fs, t.feed.timestamp, entity,
                                   entity.stop_time_update[t.j])
    IN  IF t.i > Len(t.feed.entity)
        THEN [raised |-> FALSE, data |-> d, thread |-> [t EXCEPT !.pc = "idle"]]
        ELSE IF TripFilteredOut(ft, entity.trip_id)
             \/ (t.j > Len(entity.stop_time_update) /\ t.trip_delays = << >>)
        THEN [raised |-> FALSE, data |-> d,
              thread |-> [t EXCEPT !.i = t.i + 1, !.j = 1, !.trip_delays = << >>]]
        ELSE IF t.j > Len(entity.stop_time_update)
        THEN [raised |-> FALSE,
              data |-> Store_set(d, "live_delays", entity.trip_id, t.trip_delays),
              thread |-> [t EXCEPT !.i = t.i + 1, !.j = 1, !.trip_delays = << >>]]
        ELSE IF acc.raised
        THEN [raised |-> TRUE, data |-> acc.data, thread |-> [t EXCEPT !.pc = "idle"]]
        ELSE [raised |-> FALSE, data |-> acc.data,
              thread |-> [t EXCEPT !.j = t.j + 1, !.trip_delays = acc.trip_delays]]

\* The server after construction: the refresh thread between two passes,
\* the query thread outside _get_live_delay.
InitIngest ==
    /\ static = ServerStatics[1]
    /\ filter_stops = None
    /\ filter_trips = None
    /\ data = load_static(static, filter_stops)
    /\ passes = 0
    /\ last_call = Call("__init__", "", 0, 0, "", 0)
    /\ result = Result(FALSE, << >>, None)
    /\ cache_file = Some(data)
    /\ store2 = None
    /\ redis = None
    /\ clock = 0
    /\ rate_limit_count = 0
    /\ threads = [ingest |-> IngestThread("idle", << >>, 1, 1, << >>),
                  query |-> DelayThread("idle", "", 0, << >>)]
    /\ reference = None

\* _parse_live_data is entered with a feed; reference keeps Store.data as
\* it was before the pass
IngestStart(feed) ==
    /\ threads.ingest.pc = "idle"
    /\ passes < MaxPasses
    /\ threads' = [threads EXCEPT !.ingest = IngestThread("parse", feed, 1, 1, << >>)]
    /\ passes' = passes + 1
    /\ reference' = Some(data)
    /\ last_call' = CallArgs("_parse_live_data", << feed >>)
    /\ UNCHANGED <<rate_limit_count, static, filter_stops, filter_trips, data, result,
                   cache_file, store2, redis, clock>>

\* one turn of the loops of _parse_live_data
IngestStep ==
    /\ threads.ingest.pc = "parse"
    /\ LET out == parse_step(data, filter_stops, filter_trips, threads.ingest)
       IN  /\ data' = out.data
           /\ threads' = [threads EXCEPT !.ingest = out.thread]
           /\ result' = IF out.thread.pc = "idle" THEN Result(out.raised, << >>, None)
                        ELSE result
    /\ last_call' = CallArgs("parse_step", << threads.ingest.i, threads.ingest.j >>)
    /\ UNCHANGED <<rate_limit_count, static, filter_stops, filter_trips, passes,
                   cache_file, store2, redis, clock, reference>>

\* updates = self.store.get('live_delays', trip_id)
ReadUpdates(trip_id, stop_sequence) ==
    /\ threads.query.pc = "idle"
    /\ threads' = [threads EXCEPT !.query =
                      DelayThread("search", trip_id, stop_sequence,
                                  Store_get_default(data, "live_delays", trip_id, << >>))]
    /\ last_call' = Call("store.get", "", 0, 0, trip_id, stop_sequence)
    /\ UNCHANGED <<rate_limit_count, static, filter_stops, filter_trips, data, passes,
                   result, cache_file, store2, redis, clock, reference>>

\* the binary search of _get_live_delay in the list updates that it holds
SearchUpdates ==
    /\ threads.query.pc = "search"
    /\ result' = Result(FALSE, << >>,
                    _get_live_delay(
                        Store_set(<< >>, "live_delays", threads.query.trip_id,
                                  threads.query.updates),
                        threads.query.trip_id, threads.query.stop_sequence))
    /\ threads' = [threads EXCEPT !.query.pc = "idle"]
    /\ last_call' = Call("_get_live_delay", "", 0, 0, threads.query.trip_id,
                         threads.query.stop_sequence)
    /\ UNCHANGED <<rate_limit_count, static, filter_stops, filter_trips, data, passes,
                   cache_file, store2, redis, clock, reference>>

NextIngest ==
    \/ \E feed \in IngestFeeds : IngestStart(feed)
    \/ IngestStep
    \/ \E trip_id \in IngestTripIds, stop_sequence \in IngestStopSequences :
          ReadUpdates(trip_id, stop_sequence)
    \/ SearchUpdates

SpecIngest == InitIngest /\ [][NextIngest]_vars

-----------------------------------------------------------------------------
(* Store.get with the backend in two threads at once, one statement that   *)
(* touches Store.data or the backend at a time: the lookup of the cached   *)
(* item, "del self.data[namespace][key]", redis.hget, and the assignment   *)
(* of the pair (now, value).                                               *)

RaceThreads == { "a", "b" }

RaceNamespaces == { "route" }

RaceDefaults == { None, Some("d1") }

RaceValues == { "a" }

\* a thread inside Store.get: its arguments, now, and the local value
GetThread(pc, ns, key, default, now, value) ==
    [pc |-> pc, ns |-> ns, key |-> key, default |-> default, now |-> now,
     value |-> value]

\* The next statement of Store.get for the thread t: Store.data and the
\* thread after it.  pc is "lookup" before the lookup of cached_item,
\* "del" before the del of an expired item, "hget" before redis.hget,
\* "cache" before the assignment of (now, value), then "returned", or
\* "raised" when the del finds no such key (KeyError is not caught).
get_step(d, r, config, t) ==
    LET is_cachable == IsCachable(config, t.ns)
        cached_item == Store_get(d, t.ns, t.key)
        fetched == Redis_hget(r, t.ns, t.key)
        value2 == IF IsNone(fetched) THEN t.default ELSE fetched
    IN  CASE t.pc = "lookup" ->
                IF IsNone(cached_item)
                THEN [data |-> d, thread |-> [t EXCEPT !.pc = "hget"]]
                ELSE IF ~is_cachable
                THEN [data |-> d,
                      thread |-> [t EXCEPT !.pc = "returned", !.value = cached_item]]
                ELSE IF Fresh(ExpiryOf(config, t.ns), t.now, Val(cached_item).t)
                THEN [data |-> d,
                      thread |-> [t EXCEPT !.pc = "returned",
                                           !.value = IF IsNone(Val(cached_item).value)
                                                     THEN t.default
                                                     ELSE Val(cached_item).value]]
                ELSE [data |-> d, thread |-> [t EXCEPT !.pc = "del"]]
          [] t.pc = "del" ->
                IF IsNone(cached_item)
                THEN [data |-> d, thread |-> [t EXCEPT !.pc = "raised"]]
                ELSE [data |-> WithoutKey(d, t.ns, t.key),
                      thread |-> [t EXCEPT !.pc = "hget"]]
          [] t.pc = "hget" ->
                [data |-> d,
                 thread |-> [t EXCEPT !.pc = IF is_cachable THEN "cache" ELSE "returned",
                                      !.value = value2]]
          [] t.pc = "cache" ->
                [data |-> Store_set(d, t.ns, t.key, [t |-> t.now, value |-> t.value]),
                 thread |-> [t EXCEPT !.pc = "returned"]]

\* store.Store(redis_url, namespace_config) on an empty backend, no thread
\* inside Store.get
InitRace ==
    /\ rate_limit_count = 0
    /\ threads = [th \in RaceThreads |-> GetThread("idle", "", "", None, 0, None)]
    /\ static = None
    /\ filter_stops = None
    /\ filter_trips = None
    /\ data = << >>
    /\ passes = 0
    /\ last_call = Call("__init__", "", 0, 0, "", 0)
    /\ result = Result(FALSE, << >>, None)
    /\ cache_file = None
    /\ store2 = None
    /\ redis = Some(<< >>)
    /\ clock = 0
    /\ reference = None

\* the thread th calls store.get(ns, key, default): now = int(time.time())
GetStart(th, ns, key, default) ==
    /\ threads[th].pc \in { "idle", "returned" }
    /\ threads' = [threads EXCEPT ![th] = GetThread("lookup", ns, key, default, clock, None)]
    /\ last_call' = CallArgs("store.get", << th, ns, key, default >>)
    /\ UNCHANGED <<rate_limit_count, static, filter_stops, filter_trips, data, passes,
                   result, cache_file, store2, redis, clock, reference>>

\* the thread th runs its next statement of Store.get
GetStep(th) ==
    /\ threads[th].pc \in { "lookup", "del", "hget", "cache" }
    /\ LET out == get_step(data, Val(redis), namespace_config, threads[th])
       IN  /\ data' = out.data
           /\ threads' = [threads EXCEPT ![th] = out.thread]
           /\ result' = IF out.thread.pc = "raised" THEN Raises
                        ELSE IF out.thread.pc = "returned"
                        THEN Returns(out.thread.value)
                        ELSE result
    /\ last_call' = CallArgs("get_step", << th, threads[th].pc >>)
    /\ UNCHANGED <<rate_limit_count, static, filter_stops, filter_trips, passes,
                   cache_file, store2, redis, clock, reference>>

\* store.set and the clock between the statements of the threads
RaceSet(ns, key, value) ==
    /\ redis' = Some(Redis_hset(Val(redis), ns, key, value))
    /\ last_call' = CallArgs("store.set", << ns, key, value >>)
    /\ UNCHANGED <<rate_limit_count, threads, static, filter_stops, filter_trips, data,
                   passes, result, cache_file, store2, clock, reference>>

NextRace ==
    \/ \E step \in TickSteps : Tick(step)
    \/ \E ns \in RaceNamespaces, key \in RedisKeys, value \in RaceValues :
          RaceSet(ns, key, value)
    \/ \E th \in RaceThreads, ns \in RaceNamespaces, key \in RedisKeys,
          default \in RaceDefaults : GetStart(th, ns, key, default)
    \/ \E th \in RaceThreads : GetStep(th)

SpecRace == InitRace /\ [][NextRace]_vars

-----------------------------------------------------------------------------
(* What the properties are stated with.  The timetable is read from the    *)
(* static tables, not from the store.                                      *)

\* the trip ids of the feeds and of trips.txt
AllTripIds == TripIds \cup { e.trip_id : e \in Entities }

\* the last operation was a query and it returned a list
Returned == last_call.op = "get_scheduled_arrivals" /\ ~result.raised

\* the arrivals of the list returned, as indices
Emitted == DOMAIN result.arrivals

\* the arrival was built from a stop time (not from a live addition)
FromStopTime(a) == ~IsNone(a.stop_time)

\* the trips recorded as cancelled: the keys of the live_cancelations hash
LiveCancellations ==
    IF "live_cancelations" \in DOMAIN data /\ data["live_cancelations"].kind = "dict"
    THEN DOMAIN data["live_cancelations"].map
    ELSE {}

\* LiveDelays[trip_id], << >> when there is none
LiveDelays(trip_id) ==
    IF "live_delays" \in DOMAIN data /\ trip_id \in DOMAIN data["live_delays"].map
    THEN data["live_delays"].map[trip_id]
    ELSE << >>

\* the calendar.txt rows of the service of a trip of trips.txt
ServiceRowsOf(trip_id) ==
    { static.calendar[i] : i \in { j \in DOMAIN static.calendar :
        \E k \in DOMAIN static.trips :
            /\ static.trips[k].trip_id = trip_id
            /\ static.trips[k].service_id = static.calendar[j].service_id } }

\* calendar_dates.txt holds exception_type x for the service on the date
HasException(service_id, date, x) ==
    \E i \in DOMAIN static.calendar_dates :
        static.calendar_dates[i] =
            [service_id |-> service_id, date |-> date, exception_type |-> x]

\* the run predicate of a trip on a date: added, or scheduled and not removed
RunsOn(trip_id, date) ==
    \E sv \in ServiceRowsOf(trip_id) :
        \/ HasException(sv.service_id, date, 1)
        \/ /\ sv.start_date <= date
           /\ date <= sv.end_date
           /\ sv.days[(date % 7) + 1]
           /\ ~HasException(sv.service_id, date, 2)

\* the stop_times.txt rows of the stop number queried last
RowsOfStop ==
    { i \in DOMAIN static.stop_times :
        \E j \in DOMAIN static.stops :
            /\ static.stops[j].stop_id = static.stop_times[i].stop_id
            /\ last_call.stop_number =
                 (IF static.stops[j].stop_code = "" THEN static.stops[j].stop_id
                  ELSE static.stops[j].stop_code) }

\* seconds since midnight of a stop_times.txt row or of a packed stop time
Offset(r) == r.arrival_hour * 3600 + r.arrival_min * 60 + r.arrival_sec

\* arrival a was built from stop_times.txt row r
BuiltFrom(a, r) ==
    /\ FromStopTime(a)
    /\ Val(a.stop_time).trip_id = r.trip_id
    /\ Val(a.stop_time).stop_sequence = r.stop_sequence
    /\ Offset(Val(a.stop_time)) = Offset(r)

\* real_time_arrival if non-null, else scheduled_arrival
Due(a) ==
    IF a.real_time_arrival = << >> THEN a.scheduled_arrival ELSE a.real_time_arrival[1]

-----------------------------------------------------------------------------
(* C1: once an ingest pass has recorded a TRIP_CANCELLED update for trip T *)
(* (T is a key of live_cancelations), T stays recorded through every later *)
(* step, and every later query that returns a list returns no arrival      *)
(* built from a stop time of T.                                            *)

-----------------------------------------------------------------------------
(* C2: no arrival of the list returned has both scheduled_arrival <= now   *)
(* and (real_time_arrival null or real_time_arrival <= now), whether built *)
(* from a stop time or from a live addition.                               *)

C2_PastFilter ==
    Returned =>
        \A i \in Emitted :
            LET a == result.arrivals[i]
            IN  ~ /\ a.scheduled_arrival <= last_call.now
                  /\ \/ a.real_time_arrival = << >>
                     \/ a.real_time_arrival[1] <= last_call.now

-----------------------------------------------------------------------------
(* C3: every arrival of the list returned lies within the query window:    *)
(* its real_time_arrival when present, else its scheduled_arrival, is no   *)
(* later than now + max_wait.                                              *)

C3_WithinWindow ==
    Returned =>
        \A i \in Emitted : Due(result.arrivals[i]) <= last_call.now + last_call.max_wait

-----------------------------------------------------------------------------
(* C4: the query is complete over the window: every stop time of the stop  *)
(* whose trip runs on its arrival date, is not cancelled, and whose        *)
(* scheduled arrival lies in (now, now + max_wait] is in the list          *)
(* returned; and the hour buckets examined are the hour before now, then   *)
(* now.hour .. now.hour + ceil(max_wait in hours), each mod 24.            *)

\* the hour buckets that C4 names
HoursOfClaim ==
    LET hour == (last_call.now % 86400) \div 3600
        ceil == (last_call.max_wait + 3599) \div 3600
    IN  << (hour + 23) % 24 >> \o [k \in 1 .. ceil + 1 |-> (hour + k - 1) % 24]

C4_CompleteOverWindow ==
    Returned =>
        /\ try_hours(last_call.now, last_call.max_wait) = HoursOfClaim
        /\ \A i \in RowsOfStop :
             \A day \in { DateOf(last_call.now) - 1, DateOf(last_call.now),
                          DateOf(last_call.now) + 1 } :
                LET row == static.stop_times[i]
                    arrival == day * 86400 + Offset(row)
                IN  ( /\ last_call.now < arrival
                      /\ arrival <= last_call.now + last_call.max_wait
                      /\ RunsOn(row.trip_id, arrival \div 86400)
                      /\ row.trip_id \notin LiveCancellations )
                    => \E j \in Emitted :
                          /\ BuiltFrom(result.arrivals[j], row)
                          /\ result.arrivals[j].scheduled_arrival = arrival

-----------------------------------------------------------------------------
(* C5: the list returned is monotonically non-decreasing in the key        *)
(* real_time_arrival if non-null, else scheduled_arrival.                  *)

C5_SortedByDue ==
    Returned =>
        \A i, j \in Emitted :
            i < j => Due(result.arrivals[i]) <= Due(result.arrivals[j])

\* a list was returned in which a delayed arrival stands after an arrival
\* that is scheduled later, and which holds a live addition
C5_Witness ==
    /\ Returned
    /\ \E i, j \in Emitted :
          /\ i < j
          /\ result.arrivals[i].scheduled_arrival > result.arrivals[j].scheduled_arrival
          /\ result.arrivals[j].real_time_arrival # << >>
          /\ FromStopTime(result.arrivals[j])
    /\ \E i \in Emitted : ~FromStopTime(result.arrivals[i])

-----------------------------------------------------------------------------
(* C6: for a LiveDelays list sorted ascending by stop_sequence and any     *)
(* target seq, _get_live_delay returns the delay of the entry with the     *)
(* greatest stop_sequence <= seq, and null when there is no such entry or  *)
(* the trip has no LiveDelays; an entry that carries an absolute           *)
(* arrival_time has a null delay.                                          *)

SortedBySequence(U) ==
    \A i, j \in DOMAIN U : i < j => U[i].stop_sequence <= U[j].stop_sequence

\* the delays that C6 allows for the lookup of seq in U
DelaysOfClaim(U, seq) ==
    LET below == { i \in DOMAIN U : U[i].stop_sequence <= seq }
        last == { i \in below : \A j \in below : U[j].stop_sequence <= U[i].stop_sequence }
    IN  IF below = {} THEN { << >> }
        ELSE { IF U[i].arrival_time # << >> THEN << >> ELSE U[i].delay : i \in last }

C6_GreatestNotAfter ==
    ( /\ last_call.op = "_get_live_delay"
      /\ SortedBySequence(LiveDelays(last_call.trip_id)) )
    => /\ ~result.raised
       /\ result.delay \in DelaysOfClaim(LiveDelays(last_call.trip_id),
                                         last_call.stop_sequence)

\* a lookup between the second and the third entry of a sorted list of three
\* updates returned the delay of the second, which differs from the others
C6_Witness ==
    LET U == LiveDelays(last_call.trip_id)
    IN  /\ last_call.op = "_get_live_delay"
        /\ Len(U) = 3
        /\ U[1].stop_sequence < U[2].stop_sequence
        /\ U[2].stop_sequence < last_call.stop_sequence
        /\ last_call.stop_sequence < U[3].stop_sequence
        /\ U[2].delay # << >>
        /\ U[1].delay # U[2].delay
        /\ U[3].delay # U[2].delay
        /\ result.delay = U[2].delay

\* a lookup at an entry that carries an absolute arrival_time returned null
C6_WitnessAbsolute ==
    LET U == LiveDelays(last_call.trip_id)
    IN  /\ last_call.op = "_get_live_delay"
        /\ SortedBySequence(U)
        /\ \E i \in DOMAIN U :
              /\ U[i].stop_sequence = last_call.stop_sequence
              /\ U[i].arrival_time # << >>
              /\ i > 1
              /\ U[i - 1].delay # << >>
        /\ result.delay = << >>

-----------------------------------------------------------------------------
(* C7: a stop time is in the list returned only if its service runs on the *)
(* date of its arrival_datetime: the exception of that date is ADDED, or   *)
(* the date is within [start_date, end_date] with the weekday flag set and *)
(* the exception is not REMOVED.                                           *)

C7_RunPredicate ==
    Returned =>
        \A i \in Emitted :
            FromStopTime(result.arrivals[i]) =>
                RunsOn(Val(result.arrivals[i].stop_time).trip_id,
                       result.arrivals[i].scheduled_arrival \div 86400)

\* a query on the Saturday returned the trip whose service is added on that
\* day by exception, and not the trip in the same bucket whose service is
\* removed on that day by exception
C7_Witness ==
    /\ Returned
    /\ DateOf(last_call.now) = Sat
    /\ \E i \in Emitted :
          /\ FromStopTime(result.arrivals[i])
          /\ Val(result.arrivals[i].stop_time).trip_id = "3599_6532"
    /\ \E i \in RowsOfStop :
          /\ static.stop_times[i].trip_id = "3582_6405"
          /\ static.stop_times[i].arrival_hour = 9
          /\ static.stop_times[i].arrival_min = 50
          /\ HasException("dly", Sat, 2)
    /\ \A i \in Emitted :
          FromStopTime(result.arrivals[i]) =>
              Val(result.arrivals[i].stop_time).trip_id # "3582_6405"

-----------------------------------------------------------------------------
(* C8: for a query at 00:05 with max_wait = 60 min, a stop time with raw   *)
(* offset 23:58 of the previous calendar day is in the list expressed as   *)
(* yesterday's date at 23:58 (here: when its service ran yesterday, it is  *)
(* not cancelled and its live delay puts it after now), and the list holds *)
(* no arrival whose scheduled_arrival is that offset on today's date.      *)

C8_MidnightWrap ==
    ( /\ Returned
      /\ last_call.now % 86400 = 5 * 60
      /\ last_call.max_wait = 60 * 60 )
    => \A i \in RowsOfStop :
          LET row == static.stop_times[i]
              yesterday == (last_call.now \div 86400) - 1
              at == yesterday * 86400 + Offset(row)
          IN  Offset(row) = 23 * 3600 + 58 * 60 =>
                /\ \A j \in Emitted :
                      BuiltFrom(result.arrivals[j], row) =>
                          result.arrivals[j].scheduled_arrival = at
                /\ ( /\ RunsOn(row.trip_id, yesterday)
                     /\ row.trip_id \notin LiveCancellations
                     /\ _get_live_delay(data, row.trip_id, row.stop_sequence) # << >>
                     /\ at + _get_live_delay(data, row.trip_id, row.stop_sequence)[1]
                          > last_call.now )
                   => \E j \in Emitted :
                         /\ BuiltFrom(result.arrivals[j], row)
                         /\ result.arrivals[j].scheduled_arrival = at

-----------------------------------------------------------------------------
(* C9: for every arrival built from a stop time whose offset H:M:S is more *)
(* than 12 hours behind now's time since midnight, scheduled_arrival.date  *)
(* is now.date + 1 day; for every other one scheduled_arrival is           *)
(* midnight(now) + H:M:S.                                                  *)

C9_DayRollover ==
    Returned =>
        \A i \in Emitted :
            LET a == result.arrivals[i]
                today == last_call.now \div 86400
                since_midnight == last_call.now - today * 86400
            IN  FromStopTime(a) =>
                   IF since_midnight - Offset(Val(a.stop_time)) > 12 * 3600
                   THEN a.scheduled_arrival \div 86400 = today + 1
                   ELSE a.scheduled_arrival = today * 86400 + Offset(Val(a.stop_time))

\* a query late in the evening returned a stop time of the small hours, on
\* the next day
C9_Witness ==
    /\ Returned
    /\ \E i \in Emitted :
          /\ FromStopTime(result.arrivals[i])
          /\ Val(result.arrivals[i].stop_time).arrival_hour = 0
          /\ HourOf(last_call.now) = 23
          /\ DateOf(result.arrivals[i].scheduled_arrival) = DateOf(last_call.now) + 1

-----------------------------------------------------------------------------
(* C10: the calendar and the Exception entry consulted for a stop time are *)
(* those of the date of service: a stop time stored with raw arrival_h >=  *)
(* 24 is in the list returned only if its service runs on the day the      *)
(* service began, one day before the wall-clock arrival date.              *)

C10_ServiceDate ==
    Returned =>
        \A i \in Emitted :
            LET a == result.arrivals[i]
            IN  (FromStopTime(a) /\ Val(a.stop_time).arrival_hour >= 24) =>
                    RunsOn(Val(a.stop_time).trip_id, (a.scheduled_arrival \div 86400) - 1)

-----------------------------------------------------------------------------
(* C11: after a completed static load, is_valid_stop_number(s) is true if  *)
(* and only if s is the stop number of some row of stops.txt (its stop     *)
(* code, or its stop_id when the code is blank), with or without a stop    *)
(* filter.                                                                 *)

\* the stop numbers of the rows of stops.txt
StopNumbersOfClaim ==
    { IF static.stops[i].stop_code = "" THEN static.stops[i].stop_id
      ELSE static.stops[i].stop_code : i \in DOMAIN static.stops }

C11_ValidStopNumber ==
    last_call.op = "is_valid_stop_number" =>
        /\ ~result.raised
        /\ result.value = Some(last_call.stop_number \in StopNumbersOfClaim)

\* loaded with a filter for stop 1358, the stop without a code is valid
\* under its stop_id
C11_Witness ==
    /\ last_call.op = "is_valid_stop_number"
    /\ filter_stops = Some({"1358"})
    /\ last_call.stop_number = "700000015365"
    /\ result.value = Some(TRUE)

\* a stop number that stops.txt does not list is not valid
C11_WitnessInvalid ==
    /\ last_call.op = "is_valid_stop_number"
    /\ last_call.stop_number = "9999"
    /\ result.value = Some(FALSE)

-----------------------------------------------------------------------------
(* C12: for every stop number s that is not valid, get_scheduled_arrivals  *)
(* returns the empty list, after any static load (also one whose           *)
(* stop_times rows name a stop_id that stops.txt does not list) and any    *)
(* ingest passes.                                                          *)

C12_InvalidStopEmpty ==
    ( /\ last_call.op = "get_scheduled_arrivals"
      /\ last_call.stop_number \notin StopNumbersOfClaim )
    => /\ ~result.raised
       /\ result.arrivals = << >>

-----------------------------------------------------------------------------
(* C13: get_trip_info(trip_id) returns the joined record when Trip, Route, *)
(* Agency and Service all resolve, and returns null without raising when   *)
(* any one of the four is missing.                                         *)

\* the store holds key under the hash namespace
HasKey(namespace, key) == namespace \in DOMAIN data /\ key \in DOMAIN data[namespace].map

\* the four links of the trip resolve
LinksResolve(trip_id) ==
    /\ HasKey("trip", trip_id)
    /\ LET trip == data["trip"].map[trip_id]
       IN  /\ HasKey("route", trip.route_id)
           /\ HasKey("agency", data["route"].map[trip.route_id].agency)
           /\ HasKey("service", trip.service_id)

\* the joined record of a trip whose links resolve
JoinedRecord(trip_id) ==
    LET trip == data["trip"].map[trip_id]
        route == data["route"].map[trip.route_id]
        service == data["service"].map[trip.service_id]
    IN  [route |-> route.name, agency |-> Some(data["agency"].map[route.agency]),
         service_id |-> trip.service_id, start_date |-> service.start_date,
         end_date |-> service.end_date, days |-> service.days]

C13_TripInfoOrNull ==
    last_call.op = "get_trip_info" =>
        /\ ~result.raised
        /\ result.value =
              Some(IF LinksResolve(last_call.trip_id)
                   THEN Some(JoinedRecord(last_call.trip_id)) ELSE None)

-----------------------------------------------------------------------------
(* C14: get_scheduled_arrivals never raises because of a missing record    *)
(* (a live addition whose route is missing, a trip whose service is        *)
(* missing, a route whose agency is missing): it returns a list.           *)

C14_NeverThrows ==
    last_call.op = "get_scheduled_arrivals" => ~result.raised

-----------------------------------------------------------------------------
(* C15: a set namespace behaves as a mathematical set under any sequence   *)
(* of add and remove: cardinality is the number of distinct values added   *)
(* and not since removed, has(v) is true iff v was added and not since     *)
(* removed, and no add or remove raises (so adding a present value and     *)
(* removing an absent one change nothing).                                 *)

C15_SetSemantics ==
    /\ ~result.raised
    /\ last_call.op = "Store.has" =>
          result.value = Some(last_call.args[1] \in reference)
    /\ last_call.op = "Store.cardinality" =>
          result.value = Some(Cardinality(reference))
    /\ "testnamespace" \in DOMAIN data =>
          /\ Store_cardinality(data, "testnamespace") = Cardinality(reference)
          /\ \A value \in TestValues :
                Store_has(data, "testnamespace", value) <=> value \in reference

\* a remove returned without raising and the set holds the two values that
\* were added and not removed
C15_Witness ==
    /\ last_call.op = "Store.remove"
    /\ ~result.raised
    /\ Cardinality(reference) = 2
    /\ Store_cardinality(data, "testnamespace") = 2

\* cardinality answered 3 for a set of three values
C15_WitnessCardinality ==
    /\ last_call.op = "Store.cardinality"
    /\ result.value = Some(3)

-----------------------------------------------------------------------------
(* C16: in a hash namespace, get(k, d) returns the value of the last       *)
(* set(k, v) when no delete of k followed it, for every non-null v (also   *)
(* 0 and empty containers), and d when k was deleted or never set; set and *)
(* delete on one key leave every other key of the namespace as it was.     *)

\* the hash stored under the namespace
HashOf(d) ==
    IF "testnamespace" \in DOMAIN d THEN d["testnamespace"].map ELSE << >>

C16_HashSemantics ==
    [][ /\ last_call'.op = "Store.get" =>
              /\ ~result'.raised
              /\ result'.value =
                    Some(IF last_call'.args[1] \in DOMAIN reference
                         THEN Some(reference[last_call'.args[1]])
                         ELSE last_call'.args[2])
        /\ last_call'.op \in { "Store.set", "Store.delete" } =>
              /\ ~result'.raised
              /\ \A key \in TestKeys \ { last_call'.args[1] } :
                    /\ key \in DOMAIN HashOf(data') <=> key \in DOMAIN HashOf(data)
                    /\ key \in DOMAIN HashOf(data) => HashOf(data')[key] = HashOf(data)[key]
      ]_vars

-----------------------------------------------------------------------------
(* C17: after s1.write_cache(), a store s2 constructed from, or reloaded   *)
(* from, the snapshot gives the same get and has results as s1 gave when   *)
(* the snapshot was written; the calls of s1 (also clear_cache and         *)
(* write_cache) leave s2 as it is until s2.reload_cache().                 *)

\* what get and has answer on Store.data d, for every namespace and key
Observed(d) ==
    [ns \in { "testhash", "testset" } |->
        [get |-> [key \in { "val2", "2" } |->
                     IF Store_get_raises(d, ns) THEN << "raises" >>
                     ELSE << "returns", Store_get_value(d, ns, key, None) >>],
         has |-> [value \in { "2", "val2" } |-> Store_has(d, ns, value)]]]

C17_SnapshotRoundTrip ==
    [][ /\ ( /\ last_call'.op \in { "s2.__init__", "s2.reload_cache" }
             /\ ~IsNone(cache_file) )
           => Observed(Val(store2')) = Observed(Val(reference))
        /\ last_call'.op \in { "s1.set", "s1.add", "s1.write_cache", "s1.clear_cache" }
           => store2' = store2
      ]_vars

\* s2 was reloaded from a snapshot, holds what the snapshot holds and does
\* not hold the value that s1 set after writing it
C17_Witness ==
    /\ last_call.op = "s2.reload_cache"
    /\ ~IsNone(cache_file)
    /\ Store_has(Val(store2), "testset", "2")
    /\ Store_get_value(Val(store2), "testhash", "val2", None) = None
    /\ Store_get_value(data, "testhash", "val2", None) = Some("2")

-----------------------------------------------------------------------------
(* C18: with the external backend, a get on a namespace configured with    *)
(* cache and expiry E returns the value that the hot cache holds since t   *)
(* when now - t < E and leaves the hot cache as it is; when now - t >= E   *)
(* it returns what the backend holds and caches that at now; with no       *)
(* expiry the cached value is returned whatever the time; on a namespace   *)
(* without cache a get leaves the hot cache as it is.                      *)

\* the hot-cache entry that the last get found for its key, or None
EntryBefore == Store_get(Val(reference), last_call.args[1], last_call.args[2])

\* what the backend holds for the key of the last get
BackendValue == Redis_hget(Val(redis), last_call.args[1], last_call.args[2])

C18_HotCacheFreshness ==
    last_call.op = "store.get" =>
        LET ns == last_call.args[1]
            key == last_call.args[2]
            cached == ~IsNone(EntryBefore) /\ ~IsNone(Val(EntryBefore).value)
            cachable == IsCachable(namespace_config, ns)
            expiry == ExpiryOf(namespace_config, ns)
        IN  /\ ( /\ cachable
                 /\ ~IsNone(expiry)
                 /\ cached
                 /\ clock - Val(EntryBefore).t < Val(expiry) )
               => /\ result.value = Some(Val(EntryBefore).value)
                  /\ data = Val(reference)
            /\ ( /\ cachable
                 /\ ~IsNone(expiry)
                 /\ ~IsNone(EntryBefore)
                 /\ clock - Val(EntryBefore).t >= Val(expiry) )
               => /\ result.value = Some(BackendValue)
                  /\ Store_get(data, ns, key) = Some([t |-> clock, value |-> BackendValue])
            /\ (cachable /\ IsNone(expiry) /\ cached)
               => /\ result.value = Some(Val(EntryBefore).value)
                  /\ data = Val(reference)
            /\ ~cachable
               => /\ result.value = Some(BackendValue)
                  /\ data = Val(reference)

\* a get was served from the hot cache, a second before the entry expires,
\* while the backend holds another value
C18_Witness ==
    /\ last_call.op = "store.get"
    /\ last_call.args[1] = "route"
    /\ ~IsNone(EntryBefore)
    /\ ~IsNone(Val(EntryBefore).value)
    /\ clock - Val(EntryBefore).t = Expiry - 1
    /\ BackendValue # Val(EntryBefore).value
    /\ result.value = Some(Val(EntryBefore).value)

\* a get found an entry that is exactly E old, and returned and cached what
\* the backend holds, which is not what the entry held
C18_WitnessEvicted ==
    /\ last_call.op = "store.get"
    /\ last_call.args[1] = "route"
    /\ ~IsNone(EntryBefore)
    /\ clock - Val(EntryBefore).t = Expiry
    /\ BackendValue # Val(EntryBefore).value
    /\ result.value = Some(BackendValue)

\* a get on the namespace with no expiry was served from the hot cache more
\* than E after the entry was cached, while the backend holds another value
C18_WitnessForever ==
    /\ last_call.op = "store.get"
    /\ last_call.args[1] = "testhash"
    /\ ~IsNone(EntryBefore)
    /\ ~IsNone(Val(EntryBefore).value)
    /\ clock - Val(EntryBefore).t > Expiry
    /\ BackendValue # Val(EntryBefore).value
    /\ result.value = Some(Val(EntryBefore).value)

-----------------------------------------------------------------------------
(* C19: a legal PackedStopTime (trip_id of at most 12 bytes, arrival hour  *)
(* in 0 .. 127, minutes, seconds and stop_sequence in -128 .. 127) and a   *)
(* legal PackedTrip (route_id of at most 12 bytes, service_id of at most 4 *)
(* bytes) pack without an exception and unpack to the record that was      *)
(* packed, an hour of 24 or more included.  A legal identifier holds no    *)
(* NUL, the byte the fields are padded with.                               *)

\* an identifier that a field of n bytes holds
LegalId(s, n) == Len(_s2b(s)) <= n /\ \A i \in 1 .. Len(s) : s[i] # 0

LegalStopTime(x) ==
    /\ LegalId(x[1], 12)
    /\ x[2] \in 0 .. 127
    /\ \A i \in 3 .. 5 : FitsInt8(x[i])

LegalTrip(x) == LegalId(x[1], 12) /\ LegalId(x[2], 4)

C19_WitnessTrip ==
    /\ last_call.op = "_unpack_trip"
    /\ result.value = Some(<< Repeat(65, 12), << 54, 55, 65, 66 >> >>)

-----------------------------------------------------------------------------
(* C20: for a stop_number of the stop filter, get_scheduled_arrivals on    *)
(* the system loaded with the filter returns what it returns on the system *)
(* loaded without it from the same static tables and given the same feeds  *)
(* and the same query (the system that reference follows).                 *)

C20_FilterIsNoSemanticChange ==
    ( /\ last_call.op = "get_scheduled_arrivals"
      /\ ~IsNone(filter_stops)
      /\ last_call.stop_number \in Val(filter_stops) )
    => /\ result.raised = Val(reference).raised
       /\ result.arrivals = Val(reference).arrivals

-----------------------------------------------------------------------------
(* C25: whatever feeds have been ingested, the list LiveDelays[trip_id] of *)
(* every trip is in ascending order of stop_sequence.                      *)

C25_LiveDelaysSorted ==
    \A t \in AllTripIds :
        \A i \in 1 .. Len(LiveDelays(t)) - 1 :
            LiveDelays(t)[i].stop_sequence <= LiveDelays(t)[i + 1].stop_sequence

-----------------------------------------------------------------------------
(* C29: with a stop filter, no ingest pass writes a LiveAdditions entry    *)
(* for a stop_number outside the filter, and every element of LiveDelays   *)
(* carries a stop_number of the filter (none carries null).                *)

\* the stop numbers that have a LiveAdditions entry
LiveAdditionStops ==
    IF "live_additions" \in DOMAIN data THEN DOMAIN data["live_additions"].map ELSE {}

C29_IngestRespectsFilter ==
    (~IsNone(filter_stops) /\ Val(filter_stops) # {}) =>
        /\ LiveAdditionStops \subseteq Val(filter_stops)
        /\ \A t \in LookupTripIds \cup { "3599_6532", "9999_2" } :
              \A i \in 1 .. Len(LiveDelays(t)) :
                  /\ ~IsNone(LiveDelays(t)[i].stop_number)
                  /\ Val(LiveDelays(t)[i].stop_number) \in Val(filter_stops)

-----------------------------------------------------------------------------
(* C30: after a static load with a stop filter, every StopTimeBucket key   *)
(* is of a stop_number of the filter, and the trips stored are exactly the *)
(* trips of trips.txt that call at a stop of the filter; when no trip      *)
(* calls at one, no trip is stored.                                        *)

\* the stop_number that stops.txt gives a stop_id, the stop_id itself when
\* the row has no stop_code; None for a stop_id that stops.txt does not list
StopNumberOfClaim(stop_id) ==
    IF \E i \in DOMAIN static.stops : static.stops[i].stop_id = stop_id
    THEN LET row == CHOOSE r \in { static.stops[i] : i \in DOMAIN static.stops } :
                        r.stop_id = stop_id
         IN  Some(IF row.stop_code = "" THEN row.stop_id ELSE row.stop_code)
    ELSE None

\* the trips of trips.txt that call at a stop of the filter
TripWhitelist ==
    { static.trips[k].trip_id : k \in DOMAIN static.trips } \cap
    { static.stop_times[i].trip_id : i \in
        { j \in DOMAIN static.stop_times :
            /\ ~IsNone(StopNumberOfClaim(static.stop_times[j].stop_id))
            /\ Val(StopNumberOfClaim(static.stop_times[j].stop_id)) \in Val(filter_stops) } }

\* the trips stored
StoredTrips == IF "trip" \in DOMAIN data THEN DOMAIN data["trip"].map ELSE {}

\* the stop numbers of the StopTimeBucket keys
BucketStops ==
    IF "stop_times" \in DOMAIN data
    THEN { key[1] : key \in DOMAIN data["stop_times"].map }
    ELSE {}

C30_FilteredLoad ==
    (~IsNone(filter_stops) /\ Val(filter_stops) # {}) =>
        /\ BucketStops \subseteq Val(filter_stops)
        /\ StoredTrips = TripWhitelist

-----------------------------------------------------------------------------
(* C26: LiveAdditions is overwritten by each successful ingest pass: after  *)
(* a pass that returned, the added trips recorded for a stop are those of   *)
(* the feed of that pass, so that the same feed ingested k times leaves     *)
(* what ingesting it once leaves.                                           *)

\* the feed of the last call of _parse_live_data
LastFeed == last_call.args[1]

\* LiveAdditions[stop_number]
LiveAdditions(stop_number) == Store_get_default(data, "live_additions", stop_number, << >>)

\* the added trips that a feed reports for a stop: one for each update with
\* an arrival time, of an added trip, at a stop_id of that stop
RECURSIVE AdditionsOfUpdates(_, _, _, _)
AdditionsOfUpdates(timestamp, entity, updates, stop_number) ==
    IF updates = << >> THEN << >>
    ELSE LET u == Head(updates)
             here == /\ u.schedule_relationship = STOP_SCHEDULED
                     /\ u.arrival_time # 0
                     /\ Store_get(data, "stop", u.stop_id) = Some(stop_number)
         IN  (IF here THEN << [route_id |-> entity.route_id,
                               arrival |-> fromtimestamp(u.arrival_time),
                               timestamp |-> timestamp] >>
              ELSE << >>)
             \o AdditionsOfUpdates(timestamp, entity, Tail(updates), stop_number)

RECURSIVE AdditionsOfEntities(_, _, _)
AdditionsOfEntities(timestamp, entities, stop_number) ==
    IF entities = << >> THEN << >>
    ELSE (IF Head(entities).schedule_relationship = TRIP_ADDED
          THEN AdditionsOfUpdates(timestamp, Head(entities),
                                  Head(entities).stop_time_update, stop_number)
          ELSE << >>)
         \o AdditionsOfEntities(timestamp, Tail(entities), stop_number)

AdditionsOf(feed, stop_number) == AdditionsOfEntities(feed.timestamp, feed.entity, stop_number)

C26_AdditionsOverwritten ==
    (last_call.op = "_parse_live_data" /\ ~result.raised) =>
        \A stop_number \in QueryStops :
            LiveAdditions(stop_number) = AdditionsOf(LastFeed, stop_number)

-----------------------------------------------------------------------------
(* C27: LiveCancellations is overwritten by each successful ingest pass:    *)
(* after a pass that returned, the cancelled trips are those that the feed  *)
(* of that pass reports as cancelled, and no trip cancelled by an earlier   *)
(* feed only.                                                               *)

\* the trips that a feed reports as cancelled
CancelledIn(feed) ==
    { feed.entity[i].trip_id :
        i \in { j \in DOMAIN feed.entity :
                  feed.entity[j].schedule_relationship = TRIP_CANCELLED } }

C27_CancellationsOverwritten ==
    (last_call.op = "_parse_live_data" /\ ~result.raised) =>
        LiveCancellations \subseteq CancelledIn(LastFeed)

-----------------------------------------------------------------------------
(* C21: the rate-limit counter follows the outcomes of the polls: an HTTP   *)
(* 429 adds one to it, any other HTTP error leaves it as it is, a           *)
(* successful poll sets it to zero, and refresh_live_data returns it.       *)

\* the response that the last poll got
LastResponse == last_call.args[1]

\* rate_limit_count before the last poll
CountBefore == Val(reference).rate_limit_count

C21_RateLimitCounter ==
    last_call.op = "refresh_live_data" =>
        /\ (LastResponse.kind = "http" /\ LastResponse.code = 429)
              => rate_limit_count = CountBefore + 1
        /\ (LastResponse.kind = "http" /\ LastResponse.code # 429)
              => rate_limit_count = CountBefore
        /\ LastResponse.kind = "ok" => rate_limit_count = 0
        /\ LastResponse.kind \in { "http", "ok" } => result = Returns(rate_limit_count)

-----------------------------------------------------------------------------
(* C22: while the rate-limit counter is 0 the thread waits polling_period   *)
(* seconds before the next poll; while it is k > 0 the wait is              *)
(* polling_period extended by polling_period * 1.5^k.                       *)

C22_PollWait ==
    threads.refresh.pc = "sleep" =>
        threads.refresh.sleep =
            IF rate_limit_count = 0 THEN threads.refresh.polling_period
            ELSE threads.refresh.polling_period
                 + (threads.refresh.polling_period * Pow(3, rate_limit_count))
                       \div Pow(2, rate_limit_count)

-----------------------------------------------------------------------------
(* C23: the live refresh worker never stops: whatever the outcome of a      *)
(* poll, the thread goes on to another poll.                                *)

C23_WorkerNeverStops == threads.refresh.pc # "stopped"

-----------------------------------------------------------------------------
(* C24: a query that runs while the store is reloaded reads every static    *)
(* namespace from one and the same static load.                             *)

C24_QueryReadsOneLoad == Cardinality(threads.query.loads) <= 1

-----------------------------------------------------------------------------
(* C28: a poll that does not succeed (an HTTP error status, no connection,  *)
(* a body that is not a FeedMessage) leaves LiveDelays, LiveAdditions and   *)
(* LiveCancellations exactly as they were before the poll.                  *)

\* LiveDelays, LiveAdditions and LiveCancellations of Store.data d
LiveState(d) ==
    [delays |-> IF "live_delays" \in DOMAIN d THEN d["live_delays"].map ELSE << >>,
     additions |-> IF "live_additions" \in DOMAIN d THEN d["live_additions"].map
                   ELSE << >>,
     cancellations |-> IF "live_cancelations" \in DOMAIN d
                       THEN DOMAIN d["live_cancelations"].map
                            \cup d["live_cancelations"].members
                       ELSE {}]

\* the step is a poll that did not succeed
FailedPoll ==
    /\ passes' = passes + 1
    /\ last_call'.op = "refresh_live_data"
    /\ last_call'.args[1].kind \in { "http", "urlerror", "corrupt" }

C28_FailedPollKeepsLiveState ==
    [][FailedPoll => LiveState(data') = LiveState(data)]_vars

\* a poll was answered with 429 while a trip delay and an added trip were
\* recorded, and both are still recorded
C28_Witness ==
    /\ last_call.op = "refresh_live_data"
    /\ LastResponse.kind = "http"
    /\ LastResponse.code = 429
    /\ LiveState(data) = LiveState(Val(reference).data)
    /\ LiveState(data).delays # << >>
    /\ LiveState(data).additions # << >>

\* a poll found no connection while a trip delay was recorded
C28_WitnessNoConnection ==
    /\ last_call.op = "refresh_live_data"
    /\ LastResponse.kind = "urlerror"
    /\ LiveState(data).delays # << >>
    /\ LiveState(data) = LiveState(Val(reference).data)

-----------------------------------------------------------------------------
(* C39: a static refresh changes the static namespaces only: the step in    *)
(* which the refresh thread reloads the store leaves LiveDelays,            *)
(* LiveAdditions and LiveCancellations as the last ingest pass left them.   *)

\* the step is a wake-up of the refresh thread that reloads the store
StaticRefresh == last_call'.op = "store.reload_cache" /\ clock' # clock

C39_RefreshKeepsLiveState ==
    [][StaticRefresh => LiveState(data') = LiveState(data)]_vars

-----------------------------------------------------------------------------
(* C33: a miss returns the caller's default: with the external backend, a  *)
(* get with default d on a key that the backend does not hold, in a        *)
(* namespace configured with cache, returns d, whatever default an earlier *)
(* get on that key was called with.                                        *)

C33_MissReturnsDefault ==
    (/\ last_call.op = "store.get"
     /\ IsCachable(namespace_config, last_call.args[1])
     /\ IsNone(BackendValue))
        => result.value = Some(last_call.args[3])

-----------------------------------------------------------------------------
(* C34: a corrupted or undecodable stored entry is treated as a miss: a    *)
(* get that meets a hot-cache item that is not a (timestamp, value) pair,  *)
(* or fetches bytes from the backend that are no pickle, raises no error   *)
(* and returns the default.                                                *)

\* the last get found a hot-cache item that is not a pair
HotItemCorrupt == ~IsNone(EntryBefore) /\ UnpackRaises(Val(EntryBefore))

\* the last get found no hot-cache item, and the backend holds bytes that
\* are no pickle
BlobCorrupt ==
    /\ IsNone(EntryBefore)
    /\ ~IsNone(redis)
    /\ BackendValue = Some(Undecodable)

C34_CorruptIsMiss ==
    (last_call.op = "store.get" /\ (HotItemCorrupt \/ BlobCorrupt))
        => result = Returns(last_call.args[3])

-----------------------------------------------------------------------------
(* What the properties of the static load are stated with: the tables on   *)
(* disk (static), the filter, and the store.                               *)

\* the initialized flag is set
Initialized == Store_get(data, "status", "initialized") = Some(TRUE)

\* the keys of a hash of the store
KeysOf(ns) == IF ns \in DOMAIN data THEN DOMAIN data[ns].map ELSE {}

\* the stop_times row passes the stop filter
PassesFilter(row) ==
    \/ IsNone(filter_stops)
    \/ /\ ~IsNone(StopNumberOfClaim(row.stop_id))
       /\ Val(StopNumberOfClaim(row.stop_id)) \in Val(filter_stops)

\* the bucket of a stop_times row: its stop number (the text None for a
\* stop_id that stops.txt does not list) and its arrival hour mod 24
KeyOfRow(row) == << Fmt(StopNumberOfClaim(row.stop_id)), row.arrival_hour % 24 >>

\* the PackedStopTime of a stop_times row
PackedOf(row) ==
    [trip_id |-> row.trip_id, arrival_hour |-> row.arrival_hour,
     arrival_min |-> row.arrival_min, arrival_sec |-> row.arrival_sec,
     stop_sequence |-> row.stop_sequence]

\* the row fits the packed format
WellFormed(row) ==
    /\ FitsInt8(row.arrival_hour)
    /\ FitsInt8(row.arrival_min)
    /\ FitsInt8(row.arrival_sec)
    /\ FitsInt8(row.stop_sequence)

\* the rows of stop_times.txt that pass the filter
PassingRows ==
    { static.stop_times[i] : i \in { j \in DOMAIN static.stop_times :
                                        PassesFilter(static.stop_times[j]) } }

\* StopTimeBucket[key], << >> when there is none
Bucket(key) == Store_get_default(data, "stop_times", key, << >>)

\* the PackedStopTimes of the rows that pass the filter and belong to the
\* bucket, in the order of the rows
RECURSIVE RowsOfBucket(_, _)
RowsOfBucket(rows, key) ==
    IF rows = << >> THEN << >>
    ELSE (IF PassesFilter(Head(rows)) /\ KeyOfRow(Head(rows)) = key
          THEN << PackedOf(Head(rows)) >> ELSE << >>)
         \o RowsOfBucket(Tail(rows), key)

-----------------------------------------------------------------------------
(* C35: an unparseable row does not abort the static load: once            *)
(* load_static has been entered the constructor ends with the load         *)
(* complete and the initialized flag set, and every well-formed row of     *)
(* stop_times.txt that passes the filter is in its bucket.                 *)

C35_MalformedRowSkipped ==
    (threads.pc \in { "done", "raised" } /\ passes > 0) =>
        /\ threads.pc = "done"
        /\ Initialized
        /\ \A row \in PassingRows :
              WellFormed(row) =>
                  \E i \in DOMAIN Bucket(KeyOfRow(row)) :
                      Bucket(KeyOfRow(row))[i] = PackedOf(row)

-----------------------------------------------------------------------------
(* C36: the initialized flag marks a complete static load: in every state, *)
(* also after a load that failed part-way, the flag is set only if every   *)
(* agency, route, service, exception and stop of the tables, every trip    *)
(* that the trip filter lets through and every stop_times row that passes  *)
(* the stop filter is stored; the constructor runs load_static exactly     *)
(* when it finds no flag, and when it returns the flag is set.             *)

\* every row of the tables that the filters let through is stored
Populated ==
    /\ \A i \in DOMAIN static.agency : static.agency[i].agency_id \in KeysOf("agency")
    /\ \A i \in DOMAIN static.routes : static.routes[i].route_id \in KeysOf("route")
    /\ \A i \in DOMAIN static.calendar : static.calendar[i].service_id \in KeysOf("service")
    /\ \A i \in DOMAIN static.calendar_dates :
          << static.calendar_dates[i].service_id, static.calendar_dates[i].date >>
              \in KeysOf("exception")
    /\ \A i \in DOMAIN static.stops : static.stops[i].stop_id \in KeysOf("stop")
    /\ \A i \in DOMAIN static.trips :
          (IsNone(filter_stops) \/ static.trips[i].trip_id \in TripWhitelist)
              => static.trips[i].trip_id \in KeysOf("trip")
    /\ \A row \in PassingRows :
          \E i \in DOMAIN Bucket(KeyOfRow(row)) : Bucket(KeyOfRow(row))[i] = PackedOf(row)

C36_WitnessFailed ==
    /\ threads.pc = "raised"
    /\ KeysOf("stop") # {}
    /\ ~Initialized

\* the constructor found the flag and did not load
C36_WitnessNoLoad ==
    /\ threads.pc = "done"
    /\ passes = 0
    /\ Initialized

-----------------------------------------------------------------------------
(* C37: referential integrity after the static load: whenever the          *)
(* initialized flag is set, the route of every stored trip is a stored     *)
(* route, the agency of every stored route a stored agency and the service *)
(* of every stored trip a stored service.                                  *)

C37_ReferentialIntegrity ==
    Initialized =>
        /\ \A t \in KeysOf("trip") :
              /\ data["trip"].map[t].route_id \in KeysOf("route")
              /\ data["trip"].map[t].service_id \in KeysOf("service")
        /\ \A r \in KeysOf("route") : data["route"].map[r].agency \in KeysOf("agency")

-----------------------------------------------------------------------------
(* C38: after the static load every StopTimeBucket[(stop_number, h)] holds *)
(* exactly the PackedStopTimes of the stop_times rows of that stop number  *)
(* that pass the stop filter and whose raw arrival hour mod 24 is h, in    *)
(* the order of the rows; so each such row is in exactly one bucket.       *)

C38_Buckets ==
    Initialized =>
        /\ KeysOf("stop_times") = { KeyOfRow(row) : row \in PassingRows }
        /\ \A key \in KeysOf("stop_times") :
              /\ Bucket(key) = RowsOfBucket(static.stop_times, key)
              /\ \A i \in DOMAIN Bucket(key) : Bucket(key)[i].arrival_hour % 24 = key[2]

\* the bucket of stop 1358 and hour 0 holds the row of 24:10:00 and, after
\* it, the row of 00:10:00
C38_Witness ==
    /\ Initialized
    /\ threads.pc = "done"
    /\ passes = LastStage
    /\ Len(Bucket(<< "1358", 0 >>)) = 2
    /\ Bucket(<< "1358", 0 >>)[1].arrival_hour = 24
    /\ Bucket(<< "1358", 0 >>)[2].arrival_hour = 0

\* with a filter, a row of another stop is in no bucket
C38_WitnessFiltered ==
    /\ Initialized
    /\ threads.pc = "done"
    /\ passes = LastStage
    /\ filter_stops = Some({"1358"})
    /\ Bucket(<< "700000015365", 9 >>) = << >>
    /\ Bucket(<< "1358", 9 >>) # << >>

-----------------------------------------------------------------------------
(* Live updates while a pass is running *)

\* LiveDelays[trip_id] in the store d, << >> when there is none
DelaysIn(d, trip_id) == Store_get_default(d, "live_delays", trip_id, << >>)

\* Store.data before the pass that is running, Store.data itself between
\* two passes
BeforePass == IF threads.ingest.pc = "parse" THEN Val(reference) ELSE data

\* Store.data as the pass that is running leaves it
AfterPass ==
    IF threads.ingest.pc = "parse"
    THEN _parse_live_data(Val(reference), filter_stops, filter_trips,
                          threads.ingest.feed).data
    ELSE data

\* the step is the store.get of _get_live_delay
ReadsDelays == threads.query.pc = "idle" /\ threads'.query.pc = "search"

\* C31: the list that _get_live_delay reads for its trip_id, whatever the
\* position of a pass of _parse_live_data running in the other thread, is
\* the whole list stored before that pass or the whole list that the pass
\* leaves, never a list the pass has built in part.
C31_DelaysAtomicPerTrip ==
    [][ReadsDelays =>
          threads'.query.updates \in
              { DelaysIn(BeforePass, threads'.query.trip_id),
                DelaysIn(AfterPass, threads'.query.trip_id) }]_vars

\* the entity the pass is at
IngestEntity == threads.ingest.feed.entity[threads.ingest.i]

\* _get_live_delay has just read the list of a trip while the second pass
\* had appended one of the two delays of that trip: it read the list of
\* the first pass, which the second pass replaces by another
C31_Witness ==
    /\ last_call.op = "store.get"
    /\ threads.ingest.pc = "parse"
    /\ threads.ingest.i = 1
    /\ Len(threads.ingest.trip_delays) = 1
    /\ Len(IngestEntity.stop_time_update) = 2
    /\ threads.query.trip_id = IngestEntity.trip_id
    /\ threads.query.updates # << >>
    /\ threads.query.updates = DelaysIn(BeforePass, threads.query.trip_id)
    /\ threads.query.updates # DelaysIn(AfterPass, threads.query.trip_id)

\* _get_live_delay has just read the list a pass stored for the first trip
\* while the pass was at the entity of the second trip
C31_WitnessNewList ==
    /\ last_call.op = "store.get"
    /\ threads.ingest.pc = "parse"
    /\ threads.ingest.i = 2
    /\ threads.query.trip_id = threads.ingest.feed.entity[1].trip_id
    /\ threads.query.updates = DelaysIn(AfterPass, threads.query.trip_id)
    /\ threads.query.updates # DelaysIn(BeforePass, threads.query.trip_id)

-----------------------------------------------------------------------------
(* Store.get in two threads *)

\* C32: whatever the interleaving of two threads inside Store.get for the
\* same namespace and key, neither call raises: a thread that found the
\* hot-cache item expired evicts it and goes on to the backend even when
\* the other thread evicted it first.
C32_ExpiryRaceFree == \A th \in RaceThreads : threads[th].pc # "raised"

====
